---- MODULE Spec2Model ----
(***************************************************************************)
(* Verification model of the Flow engine of flux_foundry:                  *)
(*   - flow_controller  (src/flow/flow_runner.h)                           *)
(*   - flow_runner::ipc (src/flow/flow_runner.h), the full runner          *)
(*   - awaitable_base   (src/flow/flow_awaitable.h)                        *)
(*   - flow_when_all / flow_when_any (src/flow/flow_async_aggregator.h)    *)
(* Every atomic access of the code is one step of one thread; a thread is  *)
(* a stack of frames, so that an inline executor nests the rest of the     *)
(* pipeline inside the call that dispatched it.                            *)
(***************************************************************************)
EXTENDS Integers, Sequences, FiniteSets, TLC

\* ------------------------------------------------------------------------
\* Bounds of the model
\* ------------------------------------------------------------------------
MaxStages == 2

\* the longest blueprint without an async stage
MaxCalcStages == 3
Depth == IF MaxCalcStages > MaxStages THEN MaxCalcStages ELSE MaxStages

\* ------------------------------------------------------------------------
\* enum runner_cancel
\* ------------------------------------------------------------------------
none == 0
hard == 1
soft == 2
locked == 3
msk == 3
epoch == 4

Kinds == {"calc", "on_error", "via", "await"}
AggKinds == {"when_all", "when_any"}
IsAsync(kind) == kind \in {"await"} \cup AggKinds
ExecModes == {"inline", "deferred"}
SubmitOutcomes == {"fail", "sync", "async"}

\* pipeline 0 is the run under test; pipelines 1..NChildren are the child
\* pipelines an aggregator of pipeline 0 launches
NChildren == 2
Pipes == 0..NChildren
Children == 1..NChildren
Stages == 1..MaxStages

\* direct calls of access_delegate::submit_async on one awaitable
MaxCalls == 2
Callers == 1..MaxCalls

MainT == <<"main", 0, 0>>
CallerT(c) == <<"s", 0, c>>
Cancellers == {<<"c", 0, soft>>, <<"c", 0, hard>>}
BackendT(p, i) == <<"b", p, i>>
WorkerT(p, i) == <<"w", p, i>>
Threads == {MainT} \cup Cancellers \cup {CallerT(c) : c \in Callers}
             \cup {BackendT(p, i) : p \in Pipes, i \in Stages}
             \cup {WorkerT(p, i) : p \in Pipes, i \in 0..(Depth - 1)}

VARIABLES
    nodes,      \* nodes[p][i]: the kind of stage i of the blueprint of p (stage 0 is end)
    state,      \* state[p]: flow_controller::state_ of the controller of p
    handler,    \* handler[p]: {cancel_handler, notify_handler_dropped, cancel_param}
    aw,         \* aw[p][i]: the awaitable created by stage i of p
    stk,        \* stk[t]: the call stack of thread t
    started,    \* the cancel() calls issued so far
    hit,        \* the stages whose awaitable was waiting when a cancel() was issued
    emplaced,   \* emplaced[p]: number of receiver.emplace calls
    result,     \* result[p]: what the receiver was given last
    uaf,        \* an awaitable was accessed after its delete
    agg,        \* the state block of the aggregator awaitable of pipeline 0
    code,       \* code[c]: what call c of submit_async returned to a direct caller
    entry,      \* the flag bits of controller 0 when runner(x) was invoked, -1 before
    observed,   \* the cancel flag a stage dispatch of pipeline 0 has read, none before
    runner,     \* the flow_runner object operator() is called on, and its caller
    ex,         \* a simple_executor<capacity>, its queue and the threads that use it
    passed      \* the error a calc stage of pipeline 0 last passed on uncalled, and the stage

vars == <<nodes, state, handler, aw, stk, started, hit, emplaced, result, uaf, agg, code, entry, observed, runner, ex, passed>>

\* ------------------------------------------------------------------------
\* simple_executor (executor/simple_executor.h) over mpsc_queue
\* (utility/concurrent_queues.h)
\* ------------------------------------------------------------------------
idle == 0
running == 1
shutdown == 2

capacity == 1
NProducers == 2
MaxShutdowns == 2
MaxRuns == 2

\* producer k calls dispatch(task k) once; task 1 calls dispatch(task
\* NProducers + 1) from the consumer thread when it runs; thread 0 is the one
\* consumer, the thread that calls run()
Producers == 1..NProducers
Consumer == 0
ExThreads == 0..NProducers
Tasks == 1..(NProducers + 1)
Spawn(task) == IF task = 1 THEN NProducers + 1 ELSE 0

\* slot_t: ready, and the storage: 0 holds no object, a task, or -1 for an
\* object two constructions have written over each other; last is the task
\* whose bytes the storage held last
slot_t == [ready |-> 0, data |-> 0, last |-> 0]

\* simple_executor(): pending_ 0, state_ idle, the queue empty, no thread in
\* a call
simple_executor ==
    [pending |-> 0, state |-> idle, h |-> 0, t |-> 0,
     slot |-> [i \in 0..(capacity - 1) |-> slot_t],
     current |-> FALSE,
     pc |-> [th \in ExThreads |-> "idle"],
     arg |-> [th \in ExThreads |-> 0],
     tl |-> [th \in ExThreads |-> 0],
     cur |-> 0, phase |-> "loop",
     called |-> {}, late |-> {}, admitted |-> {},
     ran |-> [task \in Tasks |-> 0],
     runs |-> 0, returned |-> 0, requests |-> 0, early |-> FALSE, acked |-> FALSE,
     aborted |-> FALSE, ub |-> FALSE]

\* ------------------------------------------------------------------------
\* Blueprints (flow_blueprint.h): async | via is deleted, via | via collapses
\* ------------------------------------------------------------------------
ValidBp(s) ==
    \A i \in 2..Len(s) :
        /\ ~(s[i] = "await" /\ s[i - 1] = "via")
        /\ ~(s[i] = "via" /\ s[i - 1] = "via")

Blueprints ==
    {s \in UNION {[1..n -> Kinds] : n \in 1..MaxStages} : ValidBp(s)}

\* ------------------------------------------------------------------------
\* Frames
\* ------------------------------------------------------------------------
Fr(pc, p, i, v, tok) == [pc |-> pc, p |-> p, i |-> i, v |-> v, tok |-> tok]

Top(t) == Head(stk[t])
At(t, pc) == stk[t] # <<>> /\ Top(t).pc = pc

\* replace the running frame of t by the frames fs
Become(t, fs) == stk' = [stk EXCEPT ![t] = fs \o Tail(@)]

NewAw == [created |-> FALSE, status |-> "idle", refcount |-> 0, next |-> 0,
          submits |-> 0, cancels |-> 0, retains |-> 0, drops |-> 0,
          outcome |-> "none", freed |-> FALSE, tok |-> 0, got |-> "none"]

\* cancel_error<E>::make(kind)
CancelError(kind) == IF kind = soft THEN "soft_err" ELSE "hard_err"

\* flow_calc_node::f, the wrapper of transform(f) or then(f): an error passes
\* through without f being invoked; f maps a value to out, which for then(f)
\* can be an error
CalcOutcomes == {"val", "calc_err"}

\* a wrapper that calls f whatever its input holds
calc_f_called(v, out) == out

calc_f(v, out) == IF v = "val" THEN out ELSE v

\* the wrapper of on_error(f): a value passes through without f being
\* invoked; f maps an error to out, a value (recovery) or an error
error_f(v, out) == IF v = "val" THEN v ELSE out

\* flow_impl::identity, the adaptor of await<Aw>
adaptor(v) == v

\* awaitable_base::release on the record of one awaitable: delete at zero
Released(rec) ==
    [rec EXCEPT !.refcount = @ - 1, !.freed = @ \/ (rec.refcount = 1)]

\* a drop notification that forgets to release the handler's reference
DroppedNoRelease(rec) == [rec EXCEPT !.drops = @ + 1]

\* awaitable_base::notify_cancel_handler_dropped
Dropped(rec) == [Released(rec) EXCEPT !.drops = @ + 1]

\* an unlock that stores token + 1 without comparing
unlock_store(s, token) == token + 1

\* an unlock that drops whatever lock it finds, without comparing the epoch
unlock_any_epoch(s, token) == IF s % (msk + 1) = locked THEN s + 1 ELSE s

\* flow_controller::unlock(token): compare_exchange_strong(token, token + 1)
unlock(s, token) == IF s = token THEN token + 1 ELSE s

\* the flag bits of a controller state word
Low(s) == s % (msk + 1)
is_force_canceled(s) == Low(s) = hard
is_soft_canceled(s) == Low(s) = soft
is_canceled(s) == Low(s) = soft \/ Low(s) = hard

\* executor dispatch of a task: an inline executor runs it inside the call,
\* any other executor runs it later on a thread of its own; `after` is what
\* the dispatching function still does once dispatch() has returned
TaskStage(task) == IF Head(task).pc = "cont" THEN Head(task).i - 1 ELSE Head(task).i

Dispatched(t, task, after) ==
    \E mode \in ExecModes :
        IF mode = "inline"
        THEN Become(t, task \o after)
        ELSE stk' = [stk EXCEPT ![t] = after \o Tail(@),
                                ![WorkerT(Head(task).p, TaskStage(task))] = @ \o task]

\* a flow_runner as constructed: controller is whether its controller member
\* is non-null, handle whether the code that built it kept a pointer to the
\* controller, next whether a task has built a next_runner that carries on
flow_runner(controller, handle) ==
    [controller |-> controller, next |-> FALSE, handle |-> handle]

\* the constructor given a controller of the caller's, make_runner(bp) with a
\* controller of its own making, make_runner(bp, receiver) with none
Runners == {flow_runner(TRUE, TRUE), flow_runner(TRUE, FALSE), flow_runner(FALSE, FALSE)}

\* a task captures controller = std::move(self.controller): the runner that
\* dispatches is left with a null controller; the task's next_runner carries on
MovedOut(f) ==
    runner' = IF f.p = 0
              THEN [runner EXCEPT !.controller = @ /\ runner.next, !.next = TRUE]
              ELSE runner

\* a task captures the local copy `auto controller = self.controller`
CopiedOut(f) ==
    runner' = IF f.p = 0 THEN [runner EXCEPT !.next = TRUE] ELSE runner

\* no calc stage has been handed an error
NoError == [v |-> "none", i |-> 0]

PInit ==
    /\ ex = simple_executor
    /\ passed = NoError
    /\ state = [p \in Pipes |-> none]
    /\ handler = [p \in Pipes |-> 0]
    /\ aw = [p \in Pipes |-> [i \in Stages |-> NewAw]]
    /\ stk = [t \in Threads |->
                IF t = MainT THEN <<Fr("operator_call", 0, 0, "val", 0)>> ELSE <<>>]
    /\ started = {}
    /\ hit = {}
    /\ emplaced = [p \in Pipes |-> 0]
    /\ result = [p \in Pipes |-> "none"]
    /\ uaf = FALSE
    /\ agg = [fired |-> 0, failed |-> NChildren, winner |-> NChildren,
              hold |-> [k \in Children |-> 0], count |-> 0, keep |-> TRUE,
              made |-> NChildren]
    /\ code = [c \in Callers |-> "none"]
    /\ entry = -1
    /\ observed = none

Init ==
    /\ nodes \in {[p \in Pipes |-> IF p = 0 THEN b ELSE <<>>] : b \in Blueprints}
    /\ runner \in Runners
    /\ PInit

\* ------------------------------------------------------------------------
\* flow_runner (flow_runner.h)
\* ------------------------------------------------------------------------

\* flow_runner::operator(): a non-null blueprint, the controller created lazily
\* by init_controller() when the member is null
OperatorCall(t) ==
    /\ At(t, "operator_call")
    /\ LET f == Top(t) IN
         /\ Become(t, <<Fr("run", f.p, Len(nodes[f.p]), f.v, 0)>>)
         /\ entry' = IF f.p = 0 THEN Low(state[0]) ELSE entry
         /\ runner' = IF f.p = 0 THEN [runner EXCEPT !.controller = TRUE] ELSE runner
    /\ UNCHANGED <<nodes, passed, ex, code, observed, agg, state, handler, aw, started, hit, emplaced, result, uaf>>

\* ipc<0>::run: the end stage, then receiver.emplace
RunEnd(t) ==
    /\ At(t, "run")
    /\ Top(t).i = 0
    /\ Top(t).p = 0
    /\ emplaced' = [emplaced EXCEPT ![0] = @ + 1]
    /\ result' = [result EXCEPT ![0] = Top(t).v]
    /\ Become(t, <<>>)
    /\ UNCHANGED <<nodes, passed, ex, runner, code, entry, observed, agg, state, handler, aw, started, hit, uaf>>

\* a run() that reads the hard flag and dispatches the stage all the same
RunForceCheckDispatches(t) ==
    /\ At(t, "run")
    /\ Top(t).i > 0
    /\ LET f == Top(t) IN
         /\ Become(t, <<Fr("run_soft", f.p, f.i, f.v, 0)>>)
         /\ observed' = IF f.p = 0 /\ is_force_canceled(state[f.p]) THEN hard ELSE observed
    /\ UNCHANGED <<nodes, passed, ex, runner, code, entry, agg, state, handler, aw, started, hit, emplaced, result, uaf>>

\* a run() without the is_force_canceled() test
RunNoForceCheck(t) ==
    /\ At(t, "run")
    /\ Top(t).i > 0
    /\ LET f == Top(t) IN
         Become(t, <<Fr("run_soft", f.p, f.i, f.v, 0)>>)
    /\ UNCHANGED <<nodes, passed, ex, runner, code, entry, observed, agg, state, handler, aw, started, hit, emplaced, result, uaf>>

\* ipc<I>::run, first load: is_force_canceled() jumps to the end stage
RunForceCheck(t) ==
    /\ At(t, "run")
    /\ Top(t).i > 0
    /\ LET f == Top(t) IN
         IF is_force_canceled(state[f.p])
         THEN /\ Become(t, <<Fr("run", f.p, 0, CancelError(hard), 0)>>)
              /\ observed' = IF f.p = 0 THEN hard ELSE observed
         ELSE /\ Become(t, <<Fr("run_soft", f.p, f.i, f.v, 0)>>)
              /\ observed' = observed
    /\ UNCHANGED <<nodes, passed, ex, runner, code, entry, agg, state, handler, aw, started, hit, emplaced, result, uaf>>

\* ipc<I>::run, second load: is_soft_canceled() replaces the input by the
\* soft cancel error and dispatches with canceled = true_type
SoftSeen(f) == is_soft_canceled(state[f.p])

\* a dispatch that passes the stage's input on whatever the controller says
StageInPassed(f) == f.v

StageIn(f) == IF SoftSeen(f) THEN CancelError(soft) ELSE f.v
Observe(f) == observed' = IF SoftSeen(f) /\ f.p = 0 THEN soft ELSE observed

\* dispatch(node_tag_calc)
DispatchCalc(t) ==
    /\ At(t, "run_soft")
    /\ LET f == Top(t) IN
         /\ nodes[f.p][f.i] \in {"calc", "on_error"}
         /\ \E out \in CalcOutcomes :
              Become(t, <<Fr("run", f.p, f.i - 1,
                             IF nodes[f.p][f.i] = "calc" THEN calc_f(StageIn(f), out)
                                                         ELSE error_f(StageIn(f), out), 0)>>)
         /\ Observe(f)
         /\ passed' = IF f.p = 0 /\ nodes[f.p][f.i] = "calc" /\ StageIn(f) # "val"
                      THEN [v |-> StageIn(f), i |-> f.i]
                      ELSE passed
    /\ UNCHANGED <<ex, nodes, runner, code, entry, agg, state, handler, aw, started, hit, emplaced, result, uaf>>

\* dispatch(node_tag_via)
DispatchVia(t) ==
    /\ At(t, "run_soft")
    /\ LET f == Top(t) IN
         /\ nodes[f.p][f.i] = "via"
         /\ Dispatched(t, <<Fr("run", f.p, f.i - 1, StageIn(f), 0)>>, <<>>)
         /\ Observe(f)
         /\ MovedOut(f)
    /\ UNCHANGED <<nodes, passed, ex, code, entry, agg, state, handler, aw, started, hit, emplaced, result, uaf>>

\* dispatch(node_tag_async, true_type): already soft-cancelled
DispatchAsyncCanceled(t) ==
    /\ At(t, "run_soft")
    /\ LET f == Top(t) IN
         /\ IsAsync(nodes[f.p][f.i])
         /\ SoftSeen(f)
         /\ Dispatched(t, <<Fr("run", f.p, f.i - 1, CancelError(soft), 0)>>, <<>>)
         /\ Observe(f)
         /\ MovedOut(f)
    /\ UNCHANGED <<nodes, passed, ex, code, entry, agg, state, handler, aw, started, hit, emplaced, result, uaf>>

\* a creation failure path that returns without dispatching the error task
DispatchAsyncCreateFailedNoTask(t) ==
    /\ At(t, "run_soft")
    /\ LET f == Top(t) IN
         /\ IsAsync(nodes[f.p][f.i])
         /\ ~SoftSeen(f)
         /\ Become(t, <<>>)
    /\ UNCHANGED <<nodes, passed, ex, runner, code, entry, observed, agg, state, handler, aw, started, hit, emplaced, result, uaf>>

\* dispatch_async_node: the factory fails to create the awaitable
DispatchAsyncCreateFailed(t) ==
    /\ At(t, "run_soft")
    /\ LET f == Top(t) IN
         /\ IsAsync(nodes[f.p][f.i])
         /\ ~SoftSeen(f)
         /\ Dispatched(t, <<Fr("run", f.p, f.i - 1, "create_err", 0)>>, <<>>)
         /\ MovedOut(f)
    /\ UNCHANGED <<nodes, passed, ex, code, entry, observed, agg, state, handler, aw, started, hit, emplaced, result, uaf>>

\* dispatch_async_node: the factory creates the awaitable (refcount 1) and
\* provide_cancel_handler retains it
DispatchAsyncCreate(t) ==
    /\ At(t, "run_soft")
    /\ LET f == Top(t) IN
         /\ IsAsync(nodes[f.p][f.i])
         /\ ~SoftSeen(f)
         /\ aw' = [aw EXCEPT ![f.p][f.i] =
                      [NewAw EXCEPT !.created = TRUE, !.refcount = 2, !.retains = 1]]
         /\ Become(t, <<Fr("lock", f.p, f.i, f.v, 0)>>)
    /\ UNCHANGED <<nodes, passed, ex, runner, code, entry, observed, agg, state, handler, started, hit, emplaced, result, uaf>>

\* a cancelled path that dispatches the cancel error and keeps the handler's
\* reference and the runner's
LockCanceledKeeps(t) ==
    /\ At(t, "lock")
    /\ LET f == Top(t) IN
         /\ is_canceled(state[f.p])
         /\ aw' = aw
         /\ Dispatched(t, <<Fr("run", f.p, f.i - 1,
                               CancelError(IF is_soft_canceled(state[f.p]) THEN soft ELSE hard), 0)>>,
                       <<>>)
         /\ CopiedOut(f)
    /\ UNCHANGED <<nodes, passed, ex, code, entry, observed, agg, state, handler, started, hit, emplaced, result, uaf>>

\* lock_and_set_cancel_handler finds the controller cancelled: the runner
\* drops the handler, releases the awaitable and dispatches the cancel error
LockCanceled(t) ==
    /\ At(t, "lock")
    /\ LET f == Top(t) IN
         /\ is_canceled(state[f.p])
         /\ aw' = [aw EXCEPT ![f.p][f.i] = Released(Dropped(@))]
         /\ Dispatched(t, <<Fr("run", f.p, f.i - 1,
                               CancelError(IF is_soft_canceled(state[f.p]) THEN soft ELSE hard), 0)>>,
                       <<>>)
         /\ CopiedOut(f)
    /\ UNCHANGED <<nodes, passed, ex, code, entry, observed, agg, state, handler, started, hit, emplaced, result, uaf>>

\* lock_and_set_cancel_handler: the CAS exp -> exp | locked. A state word that
\* is already locked at the first load is returned as it is, and the runner
\* takes it for its own token without the triple having been written.
LockAcquire(t) ==
    /\ At(t, "lock")
    /\ LET f == Top(t) IN
         /\ Low(state[f.p]) \in {none, locked}
         /\ IF Low(state[f.p]) = none
            THEN /\ state' = [state EXCEPT ![f.p] = @ + locked]
                 /\ aw' = aw
                 /\ Become(t, <<Fr("set_handler", f.p, f.i, f.v, state[f.p] + locked)>>)
                 /\ runner' = runner
            ELSE /\ state' = state
                 /\ aw' = [aw EXCEPT ![f.p][f.i].tok = state[f.p]]
                 /\ Become(t, <<Fr("submit_async", f.p, f.i, f.v, state[f.p])>>)
                 /\ MovedOut(f)
    /\ UNCHANGED <<nodes, passed, ex, code, entry, observed, agg, handler, started, hit, emplaced, result, uaf>>

\* lock_and_set_cancel_handler writes the triple; emplace_nextstep captures
\* the token and controller = std::move(self.controller)
SetHandler(t) ==
    /\ At(t, "set_handler")
    /\ LET f == Top(t) IN
         /\ handler' = [handler EXCEPT ![f.p] = f.i]
         /\ aw' = [aw EXCEPT ![f.p][f.i].tok = f.tok]
         /\ Become(t, <<Fr("submit_async", f.p, f.i, f.v, f.tok)>>)
         /\ MovedOut(f)
    /\ UNCHANGED <<nodes, passed, ex, code, entry, observed, agg, state, started, hit, emplaced, result, uaf>>

\* a submit_async that stores waiting without a CAS
SubmitAsyncNoCas(t) ==
    /\ At(t, "submit_async")
    /\ LET f == Top(t) IN
         /\ aw' = [aw EXCEPT ![f.p][f.i].status = "waiting"]
         /\ Become(t, <<Fr("submit", f.p, f.i, f.v, f.tok)>>)
    /\ UNCHANGED <<nodes, passed, ex, runner, code, entry, observed, agg, state, handler, started, hit, emplaced, result, uaf>>

\* access_delegate::submit_async: the CAS idle -> waiting, -1 when it fails;
\* the frame that follows a nonzero return carries the code
SubmitAsync(t) ==
    /\ At(t, "submit_async")
    /\ LET f == Top(t) IN
         IF aw[f.p][f.i].status = "idle"
         THEN /\ aw' = [aw EXCEPT ![f.p][f.i].status = "waiting"]
              /\ Become(t, <<Fr("submit", f.p, f.i, f.v, f.tok)>>)
         ELSE /\ aw' = aw
              /\ Become(t, <<Fr("sf_reset", f.p, f.i, "refused", f.tok)>>)
    /\ UNCHANGED <<nodes, passed, ex, runner, code, entry, observed, agg, state, handler, started, hit, emplaced, result, uaf>>

\* derived submit() returns nonzero
SubmitFails(t) ==
    /\ At(t, "submit")
    /\ LET f == Top(t) IN
         /\ nodes[f.p][f.i] = "await"
         /\ aw' = [aw EXCEPT ![f.p][f.i].submits = @ + 1, ![f.p][f.i].outcome = "fail"]
         /\ Become(t, <<Fr("sa_store_idle", f.p, f.i, f.v, f.tok)>>)
    /\ UNCHANGED <<nodes, passed, ex, runner, code, entry, observed, agg, state, handler, started, hit, emplaced, result, uaf>>

\* a submit() whose guard unlocks before the completion is delivered
SubmitSyncAfterGuard(t) ==
    /\ At(t, "submit")
    /\ LET f == Top(t) IN
         /\ nodes[f.p][f.i] = "await"
         /\ aw' = [aw EXCEPT ![f.p][f.i].submits = @ + 1, ![f.p][f.i].outcome = "sync"]
         /\ Become(t, <<Fr("guard", f.p, f.i, f.v, f.tok), Fr("resume", f.p, f.i, "val", 0)>>)
    /\ UNCHANGED <<nodes, passed, ex, runner, code, entry, observed, agg, state, handler, started, hit, emplaced, result, uaf>>

\* derived submit() completes at once: it calls resume() and returns 0
SubmitSync(t) ==
    /\ At(t, "submit")
    /\ LET f == Top(t) IN
         /\ nodes[f.p][f.i] = "await"
         /\ aw' = [aw EXCEPT ![f.p][f.i].submits = @ + 1, ![f.p][f.i].outcome = "sync"]
         /\ Become(t, <<Fr("resume", f.p, f.i, "val", 0), Fr("guard", f.p, f.i, f.v, f.tok)>>)
    /\ UNCHANGED <<nodes, passed, ex, runner, code, entry, observed, agg, state, handler, started, hit, emplaced, result, uaf>>

\* a submit() that posts the work without retain()
SubmitBackendNoRetain(t) ==
    /\ At(t, "submit")
    /\ LET f == Top(t) IN
         /\ nodes[f.p][f.i] = "await"
         /\ aw' = [aw EXCEPT ![f.p][f.i].submits = @ + 1, ![f.p][f.i].outcome = "async"]
         /\ stk' = [stk EXCEPT ![t] = <<Fr("guard", f.p, f.i, f.v, f.tok)>> \o Tail(@),
                               ![BackendT(f.p, f.i)] =
                                   <<Fr("resume", f.p, f.i, "val", 0)>>]
    /\ UNCHANGED <<nodes, passed, ex, runner, code, entry, observed, agg, state, handler, started, hit, emplaced, result, uaf>>

\* derived submit() retains the awaitable for the backend, posts the work and returns 0;
\* the backend callback is resume() followed by release()
SubmitBackend(t) ==
    /\ At(t, "submit")
    /\ LET f == Top(t) IN
         /\ nodes[f.p][f.i] = "await"
         /\ aw' = [aw EXCEPT ![f.p][f.i].submits = @ + 1, ![f.p][f.i].outcome = "async",
                             ![f.p][f.i].refcount = @ + 1]
         /\ stk' = [stk EXCEPT ![t] = <<Fr("guard", f.p, f.i, f.v, f.tok)>> \o Tail(@),
                               ![BackendT(f.p, f.i)] =
                                   <<Fr("resume", f.p, f.i, "val", 0),
                                     Fr("release", f.p, f.i, "none", 0)>>]
    /\ UNCHANGED <<nodes, passed, ex, runner, code, entry, observed, agg, state, handler, started, hit, emplaced, result, uaf>>

\* submit_async after a failed submit(): status.store(idle), return code
SubmitAsyncStoreIdle(t) ==
    /\ At(t, "sa_store_idle")
    /\ LET f == Top(t) IN
         /\ aw' = [aw EXCEPT ![f.p][f.i].status = "idle"]
         /\ Become(t, <<Fr("sf_reset", f.p, f.i, "submit_code", f.tok)>>)
    /\ UNCHANGED <<nodes, passed, ex, runner, code, entry, observed, agg, state, handler, started, hit, emplaced, result, uaf>>

\* notify_handler_dropped(cancel_param): the call through the triple as it is
\* read at this moment; the stub drop_sub does nothing
NotifyHandlerDropped(p) ==
    /\ aw' = IF handler[p] = 0 THEN aw
             ELSE [aw EXCEPT ![p][handler[p]] = Dropped(@)]
    /\ uaf' = (uaf \/ (handler[p] # 0 /\ aw[p][handler[p]].freed))

\* the three writes that put the triple back to {cancel_stub, drop_sub, nullptr}
ClearHandler(p) == handler' = [handler EXCEPT ![p] = 0]

\* submit failed: reset_cancel_handler_when_locked()
SubmitFailedReset(t) ==
    /\ At(t, "sf_reset")
    /\ LET f == Top(t) IN
         /\ NotifyHandlerDropped(f.p)
         /\ Become(t, <<Fr("sf_clear", f.p, f.i, f.v, f.tok)>>)
    /\ UNCHANGED <<nodes, passed, ex, runner, code, entry, observed, agg, state, handler, started, hit, emplaced, result>>

\* a failure path that leaves the failed awaitable's triple installed
SubmitFailedClearSkipped(t) ==
    /\ At(t, "sf_clear")
    /\ LET f == Top(t) IN
         /\ handler' = handler
         /\ Become(t, <<Fr("sf_unlock", f.p, f.i, f.v, f.tok)>>)
    /\ UNCHANGED <<nodes, passed, ex, runner, code, entry, observed, agg, state, aw, started, hit, emplaced, result, uaf>>

\* submit failed: reset_cancel_handler_when_locked(), the triple cleared
SubmitFailedClear(t) ==
    /\ At(t, "sf_clear")
    /\ LET f == Top(t) IN
         /\ ClearHandler(f.p)
         /\ Become(t, <<Fr("sf_unlock", f.p, f.i, f.v, f.tok)>>)
    /\ UNCHANGED <<nodes, passed, ex, runner, code, entry, observed, agg, state, aw, started, hit, emplaced, result, uaf>>

\* submit failed: g.controller->unlock(state); g.controller = nullptr
SubmitFailedUnlock(t) ==
    /\ At(t, "sf_unlock")
    /\ LET f == Top(t) IN
         /\ state' = [state EXCEPT ![f.p] = unlock(@, f.tok)]
         /\ Become(t, <<Fr("sf_release", f.p, f.i, f.v, f.tok)>>)
    /\ UNCHANGED <<nodes, passed, ex, runner, code, entry, observed, agg, handler, aw, started, hit, emplaced, result, uaf>>

\* a submission failure path that hands the next stage a soft cancel error
SubmitFailedDispatchCancelError(t) ==
    /\ At(t, "sf_release")
    /\ LET f == Top(t) IN
         /\ aw' = [aw EXCEPT ![f.p][f.i] = Released(@)]
         /\ uaf' = (uaf \/ aw[f.p][f.i].freed)
         /\ Dispatched(t, <<Fr("run", f.p, f.i - 1, CancelError(soft), 0)>>, <<>>)
    /\ UNCHANGED <<nodes, passed, ex, runner, code, entry, observed, agg, state, handler, started, hit, emplaced, result>>

\* submit failed: awaitable.release(), then the submission-failed task
SubmitFailedDispatch(t) ==
    /\ At(t, "sf_release")
    /\ LET f == Top(t) IN
         /\ aw' = [aw EXCEPT ![f.p][f.i] = Released(@)]
         /\ uaf' = (uaf \/ aw[f.p][f.i].freed)
         /\ Dispatched(t, <<Fr("run", f.p, f.i - 1, "submit_err", 0)>>, <<>>)
    /\ UNCHANGED <<nodes, passed, ex, runner, code, entry, observed, agg, state, handler, started, hit, emplaced, result>>

\* ~guard(): controller->unlock(token)
GuardUnlock(t) ==
    /\ At(t, "guard")
    /\ LET f == Top(t) IN
         /\ state' = [state EXCEPT ![f.p] = unlock(@, f.tok)]
         /\ Become(t, <<>>)
    /\ UNCHANGED <<nodes, passed, ex, runner, code, entry, observed, agg, handler, aw, started, hit, emplaced, result, uaf>>

\* ------------------------------------------------------------------------
\* awaitable_base (flow_awaitable.h)
\* ------------------------------------------------------------------------

\* a result that carries a result_delegate (frames with tok = 1) holds a
\* reference on the aggregator awaitable until the result is destroyed
InTask(f) == IF f.tok = 1 THEN <<Fr("in_dropped", f.p, f.i, "none", 0)>> ELSE <<>>

\* a test of "started" in place of the CAS: a finished awaitable resumes again
cas_not_idle(status) == status # "idle"

\* the CAS waiting -> done of resume() and of the static cancel()
cas_waiting_done(status) == status = "waiting"

\* a resume() that stores done without a CAS
ResumeNoCas(t) ==
    /\ At(t, "resume")
    /\ LET f == Top(t) IN
         /\ uaf' = (uaf \/ aw[f.p][f.i].freed)
         /\ aw' = [aw EXCEPT ![f.p][f.i].status = "done"]
         /\ Become(t, <<Fr("do_resume", f.p, f.i, f.v, f.tok)>>)
    /\ UNCHANGED <<nodes, passed, ex, runner, code, entry, observed, agg, state, handler, started, hit, emplaced, result>>

\* awaitable_base::resume: the CAS; the loser returns
Resume(t) ==
    /\ At(t, "resume")
    /\ LET f == Top(t) IN
         /\ uaf' = (uaf \/ aw[f.p][f.i].freed)
         /\ IF cas_waiting_done(aw[f.p][f.i].status)
            THEN /\ aw' = [aw EXCEPT ![f.p][f.i].status = "done"]
                 /\ Become(t, <<Fr("do_resume", f.p, f.i, f.v, f.tok)>>)
            ELSE /\ aw' = aw
                 /\ Become(t, InTask(f))
    /\ UNCHANGED <<nodes, passed, ex, runner, code, entry, observed, agg, state, handler, started, hit, emplaced, result>>

\* awaitable_base::do_resume: next_step(result), which hands the continuation
\* task to the stage's dispatcher; the task owns the result and destroys it
\* when it ends; release() follows
DoResume(t) ==
    /\ At(t, "do_resume")
    /\ LET f == Top(t) IN
         /\ uaf' = (uaf \/ aw[f.p][f.i].freed)
         /\ aw' = [aw EXCEPT ![f.p][f.i].next = @ + 1, ![f.p][f.i].got = f.v]
         /\ Dispatched(t, <<Fr("cont", f.p, f.i, f.v, aw[f.p][f.i].tok)>> \o InTask(f),
                       <<Fr("release", f.p, f.i, "none", 0)>>)
    /\ UNCHANGED <<nodes, passed, ex, runner, code, entry, observed, agg, state, handler, started, hit, emplaced, result>>

\* awaitable_base::release
Release(t) ==
    /\ At(t, "release")
    /\ LET f == Top(t) IN
         /\ uaf' = (uaf \/ aw[f.p][f.i].freed)
         /\ aw' = [aw EXCEPT ![f.p][f.i] = Released(@)]
         /\ Become(t, <<>>)
    /\ UNCHANGED <<nodes, passed, ex, runner, code, entry, observed, agg, state, handler, started, hit, emplaced, result>>

\* the derived cancel() of the awaitable of a stage: the aggregators cancel
\* their children, the awaitable of await<Aw> has nothing to undo
DerivedCancel(f) ==
    IF nodes[f.p][f.i] \in AggKinds
    THEN <<Fr("agg_cancel", f.p, f.i, f.v, 0)>>
    ELSE <<>>

\* a cancel_fn that resumes with the cancel error whatever the status
AwaitableCancelNoCas(t) ==
    /\ At(t, "aw_cancel")
    /\ LET f == Top(t) IN
         /\ uaf' = (uaf \/ aw[f.p][f.i].freed)
         /\ aw' = [aw EXCEPT ![f.p][f.i].status = "done",
                             ![f.p][f.i].cancels = @ + 1]
         /\ Become(t, <<Fr("do_resume", f.p, f.i, f.v, 0)>>)
    /\ UNCHANGED <<nodes, passed, ex, runner, code, entry, observed, agg, state, handler, started, hit, emplaced, result>>

\* awaitable_base::cancel(void*, cancel_kind), the cancel_fn of the triple:
\* the CAS, then derived cancel() and do_resume(cancel error)
AwaitableCancel(t) ==
    /\ At(t, "aw_cancel")
    /\ LET f == Top(t) IN
         /\ uaf' = (uaf \/ aw[f.p][f.i].freed)
         /\ IF cas_waiting_done(aw[f.p][f.i].status)
            THEN /\ aw' = [aw EXCEPT ![f.p][f.i].status = "done",
                                     ![f.p][f.i].cancels = @ + 1]
                 /\ Become(t, DerivedCancel(f) \o <<Fr("do_resume", f.p, f.i, f.v, 0)>>)
            ELSE /\ aw' = aw
                 /\ Become(t, <<>>)
    /\ UNCHANGED <<nodes, passed, ex, runner, code, entry, observed, agg, state, handler, started, hit, emplaced, result>>

\* ------------------------------------------------------------------------
\* the continuation task of an await stage (flow_runner.h, dispatch_async_node)
\* ------------------------------------------------------------------------

\* a continuation that stores state + epoch without comparing
ContCasNoCompare(t) ==
    /\ At(t, "cont")
    /\ LET f == Top(t) IN
         /\ state' = [state EXCEPT ![f.p] = f.tok + epoch]
         /\ Become(t, <<Fr("cont_reset", f.p, f.i, f.v, f.tok)>>)
    /\ UNCHANGED <<nodes, passed, ex, runner, code, entry, observed, agg, handler, aw, started, hit, emplaced, result, uaf>>

\* "am I still have the lock?": compare_exchange_strong(exp = state, state + epoch)
ContCas(t) ==
    /\ At(t, "cont")
    /\ LET f == Top(t) IN
         IF state[f.p] = f.tok
         THEN /\ state' = [state EXCEPT ![f.p] = f.tok + epoch]
              /\ Become(t, <<Fr("cont_reset", f.p, f.i, f.v, f.tok)>>)
         ELSE /\ state' = state
              /\ Become(t, <<Fr("rch", f.p, f.i, f.v, f.tok)>>)
    /\ UNCHANGED <<nodes, passed, ex, runner, code, entry, observed, agg, handler, aw, started, hit, emplaced, result, uaf>>

\* yes: controller->reset_cancel_handler_when_locked()
ContReset(t) ==
    /\ At(t, "cont_reset")
    /\ LET f == Top(t) IN
         /\ NotifyHandlerDropped(f.p)
         /\ Become(t, <<Fr("cont_clear", f.p, f.i, f.v, f.tok)>>)
    /\ UNCHANGED <<nodes, passed, ex, runner, code, entry, observed, agg, state, handler, started, hit, emplaced, result>>

\* a continuation that leaves the triple as the await stage installed it
ContClearSkipped(t) ==
    /\ At(t, "cont_clear")
    /\ LET f == Top(t) IN
         Become(t, <<Fr("cont_unlock", f.p, f.i, f.v, f.tok)>>)
    /\ UNCHANGED <<nodes, passed, ex, runner, code, entry, observed, agg, state, handler, aw, started, hit, emplaced, result, uaf>>

\* yes: reset_cancel_handler_when_locked(), the triple cleared
ContClear(t) ==
    /\ At(t, "cont_clear")
    /\ LET f == Top(t) IN
         /\ ClearHandler(f.p)
         /\ Become(t, <<Fr("cont_unlock", f.p, f.i, f.v, f.tok)>>)
    /\ UNCHANGED <<nodes, passed, ex, runner, code, entry, observed, agg, state, aw, started, hit, emplaced, result, uaf>>

\* yes: cs.fetch_add(1), then ipc<I - 1>::run(adaptor(in))
ContUnlock(t) ==
    /\ At(t, "cont_unlock")
    /\ LET f == Top(t) IN
         /\ state' = [state EXCEPT ![f.p] = @ + 1]
         /\ Become(t, <<Fr("run", f.p, f.i - 1, adaptor(f.v), 0)>>)
    /\ UNCHANGED <<nodes, passed, ex, runner, code, entry, observed, agg, handler, aw, started, hit, emplaced, result, uaf>>

\* no: controller->reset_cancel_handler(), the load and the CAS exp -> exp | locked;
\* a state word with flag bits set makes it return at once
ResetCancelHandler(t) ==
    /\ At(t, "rch")
    /\ LET f == Top(t) IN
         IF Low(state[f.p]) # none
         THEN /\ state' = state
              /\ Become(t, <<Fr("run", f.p, f.i - 1, adaptor(f.v), 0)>>)
         ELSE /\ state' = [state EXCEPT ![f.p] = @ + locked]
              /\ Become(t, <<Fr("rch_drop", f.p, f.i, f.v, state[f.p])>>)
    /\ UNCHANGED <<nodes, passed, ex, runner, code, entry, observed, agg, handler, aw, started, hit, emplaced, result, uaf>>

\* reset_cancel_handler under its lock: notify_handler_dropped(cancel_param)
ResetCancelHandlerDrop(t) ==
    /\ At(t, "rch_drop")
    /\ LET f == Top(t) IN
         /\ NotifyHandlerDropped(f.p)
         /\ Become(t, <<Fr("rch_clear", f.p, f.i, f.v, f.tok)>>)
    /\ UNCHANGED <<nodes, passed, ex, runner, code, entry, observed, agg, state, handler, started, hit, emplaced, result>>

\* reset_cancel_handler under its lock: the triple cleared
ResetCancelHandlerClear(t) ==
    /\ At(t, "rch_clear")
    /\ LET f == Top(t) IN
         /\ ClearHandler(f.p)
         /\ Become(t, <<Fr("rch_store", f.p, f.i, f.v, f.tok)>>)
    /\ UNCHANGED <<nodes, passed, ex, runner, code, entry, observed, agg, state, aw, started, hit, emplaced, result, uaf>>

\* reset_cancel_handler: state.store(exp + epoch), then ipc<I - 1>::run(adaptor(in))
ResetCancelHandlerStore(t) ==
    /\ At(t, "rch_store")
    /\ LET f == Top(t) IN
         /\ state' = [state EXCEPT ![f.p] = f.tok + epoch]
         /\ Become(t, <<Fr("run", f.p, f.i - 1, adaptor(f.v), 0)>>)
    /\ UNCHANGED <<nodes, passed, ex, runner, code, entry, observed, agg, handler, aw, started, hit, emplaced, result, uaf>>

\* ------------------------------------------------------------------------
\* flow_controller::cancel (flow_runner.h)
\* ------------------------------------------------------------------------

\* when cancel() is applied: before or after the receiver of the run was called
Applied(p) == IF emplaced[p] >= 1 THEN "after_end" ELSE "none"

\* flow_runner::get_controller(), called once operator() has returned by a
\* caller that holds no pointer to the controller: it returns the member
GetController(t) ==
    /\ t = MainT
    /\ stk[t] = <<>>
    /\ ~runner.handle
    /\ runner.controller
    /\ runner' = [runner EXCEPT !.handle = TRUE]
    /\ UNCHANGED <<nodes, passed, ex, code, entry, observed, agg, state, handler, aw, stk, started, hit, emplaced, result, uaf>>

\* an external thread calls cancel(force) on the controller of the run; the
\* caller holds a pointer to it
CancelCall(t) ==
    /\ t \in Cancellers
    /\ t \notin started
    /\ runner.handle
    /\ started' = started \cup {t}
    /\ hit' = hit \cup {i \in Stages : /\ aw[t[2]][i].status = "waiting"
                                        /\ aw[t[2]][i].outcome \in {"sync", "async"}}
    /\ stk' = [stk EXCEPT ![t] = <<Fr("cancel", t[2], 0, Applied(t[2]), t[3])>>]
    /\ UNCHANGED <<nodes, passed, ex, runner, code, entry, observed, agg, state, handler, aw, emplaced, result, uaf>>

\* a cancel() that replaces the kind of an earlier cancel and runs the
\* handler again
CancelReturnOverrides(t) ==
    /\ At(t, "cancel")
    /\ LET f == Top(t) IN
         /\ is_canceled(state[f.p])
         /\ state' = [state EXCEPT ![f.p] = @ - Low(@) + f.tok]
         /\ Become(t, <<Fr("cancel_invoke", f.p, 0, f.v, f.tok)>>)
    /\ UNCHANGED <<nodes, passed, ex, runner, code, entry, observed, agg, handler, aw, started, hit, emplaced, result, uaf>>

\* cancel(): already soft or hard -> return
CancelReturn(t) ==
    /\ At(t, "cancel")
    /\ is_canceled(state[Top(t).p])
    /\ Become(t, <<>>)
    /\ UNCHANGED <<nodes, passed, ex, runner, code, entry, observed, agg, state, handler, aw, started, hit, emplaced, result, uaf>>

\* a cancel() whose CAS also succeeds on a locked state word
CancelCasLocked(t) ==
    /\ At(t, "cancel")
    /\ LET f == Top(t) IN
         /\ ~is_canceled(state[f.p])
         /\ state' = [state EXCEPT ![f.p] = @ - Low(@) + f.tok]
         /\ Become(t, <<Fr("cancel_invoke", f.p, 0, f.v, f.tok)>>)
    /\ UNCHANGED <<nodes, passed, ex, runner, code, entry, observed, agg, handler, aw, started, hit, emplaced, result, uaf>>

\* cancel(): the CAS (exp & ~msk) -> (exp | kind); it fails, and the loop
\* spins, for as long as the state word is locked
CancelCas(t) ==
    /\ At(t, "cancel")
    /\ LET f == Top(t) IN
         /\ Low(state[f.p]) = none
         /\ state' = [state EXCEPT ![f.p] = @ + f.tok]
         /\ Become(t, <<Fr("cancel_invoke", f.p, 0, f.v, f.tok)>>)
    /\ UNCHANGED <<nodes, passed, ex, runner, code, entry, observed, agg, handler, aw, started, hit, emplaced, result, uaf>>

\* a cancel() that sets the flag and clears the triple without calling
\* cancel_handler
CancelInvokeStub(t) ==
    /\ At(t, "cancel_invoke")
    /\ LET f == Top(t) IN
         Become(t, <<Fr("cancel_drop", f.p, 0, f.v, f.tok)>>)
    /\ UNCHANGED <<nodes, passed, ex, runner, code, entry, observed, agg, state, handler, aw, started, hit, emplaced, result, uaf>>

\* cancel(): cancel_handler(cancel_param, kind)
CancelInvoke(t) ==
    /\ At(t, "cancel_invoke")
    /\ LET f == Top(t) IN
         IF handler[f.p] = 0
         THEN Become(t, <<Fr("cancel_drop", f.p, 0, f.v, f.tok)>>)
         ELSE Become(t, <<Fr("aw_cancel", f.p, handler[f.p], CancelError(f.tok), 0),
                          Fr("cancel_drop", f.p, 0, f.v, f.tok)>>)
    /\ UNCHANGED <<nodes, passed, ex, runner, code, entry, observed, agg, state, handler, aw, started, hit, emplaced, result, uaf>>

\* cancel(): notify_handler_dropped(cancel_param)
CancelDrop(t) ==
    /\ At(t, "cancel_drop")
    /\ LET f == Top(t) IN
         /\ NotifyHandlerDropped(f.p)
         /\ Become(t, <<Fr("cancel_clear", f.p, 0, f.v, f.tok)>>)
    /\ UNCHANGED <<nodes, passed, ex, runner, code, entry, observed, agg, state, handler, started, hit, emplaced, result>>

\* cancel(): the triple cleared, return
CancelClear(t) ==
    /\ At(t, "cancel_clear")
    /\ ClearHandler(Top(t).p)
    /\ Become(t, <<>>)
    /\ UNCHANGED <<nodes, passed, ex, runner, code, entry, observed, agg, state, aw, started, hit, emplaced, result, uaf>>

\* ------------------------------------------------------------------------
\* Aggregators (flow_async_aggregator.h): pipeline 0 has one aggregator stage,
\* its awaitable owns the state block `agg` and the controllers of the child
\* pipelines 1..NChildren; child I of the code is pipeline I + 1
\* ------------------------------------------------------------------------
launch_success_msk == 2
launch_failed_msk == 1
detail_epoch == 4
successfully_finished == detail_epoch + launch_success_msk

HasBit(x, m) == (x \div m) % 2 = 1
fetch_or(x, m) == IF HasBit(x, m) THEN x ELSE x + m

AggStage == CHOOSE i \in 1..Len(nodes[0]) : nodes[0][i] \in AggKinds
AggKind == IF \E i \in 1..Len(nodes[0]) : nodes[0][i] \in AggKinds
           THEN nodes[0][AggStage] ELSE "none"

\* an access to the state block through the aggregator awaitable
AggTouch == uaf' = (uaf \/ aw[0][AggStage].freed)

\* one of the two references child k holds on the aggregator goes away: the
\* runner object inside launch<I>(), or the tasks and continuations that carry
\* copies of the child's receiver; the delegate releases the aggregator when
\* the last copy is destroyed
HoldDropped(k) ==
    /\ agg' = [agg EXCEPT !.hold[k] = @ - 1]
    /\ IF agg.hold[k] = 1
       THEN /\ aw' = [aw EXCEPT ![0][AggStage] = Released(@)]
            /\ AggTouch
       ELSE /\ aw' = aw
            /\ uaf' = uaf

\* a loop that passes over the controllers of children not launched yet
CancelEachLaunched(t) ==
    /\ At(t, "cancel_each")
    /\ LET f == Top(t) IN
         IF f.i > NChildren
         THEN /\ Become(t, <<>>)
              /\ uaf' = uaf
         ELSE /\ IF agg.hold[f.i] > 0 \/ emplaced[f.i] > 0
                 THEN Become(t, <<Fr("cancel", f.i, 0, "none", hard),
                                  Fr("cancel_each", f.p, f.i + 1, f.v, 0)>>)
                 ELSE Become(t, <<Fr("cancel_each", f.p, f.i + 1, f.v, 0)>>)
              /\ AggTouch
    /\ UNCHANGED <<nodes, passed, ex, runner, code, entry, observed, agg, state, handler, aw, started, hit, emplaced, result>>

\* the loop `for i in 0..N-1: state.controllers[i].cancel(true)`
CancelEach(t) ==
    /\ At(t, "cancel_each")
    /\ LET f == Top(t) IN
         IF f.i > NChildren
         THEN /\ Become(t, <<>>)
              /\ uaf' = uaf
         ELSE /\ Become(t, <<Fr("cancel", f.i, 0, "none", hard),
                             Fr("cancel_each", f.p, f.i + 1, f.v, 0)>>)
              /\ AggTouch
    /\ UNCHANGED <<nodes, passed, ex, runner, code, entry, observed, agg, state, handler, aw, started, hit, emplaced, result>>

\* a derived cancel() that leaves the child controllers alone
AggCancelNobody(t) ==
    /\ At(t, "agg_cancel")
    /\ Become(t, <<>>)
    /\ AggTouch
    /\ UNCHANGED <<nodes, passed, ex, runner, code, entry, observed, agg, state, handler, aw, started, hit, emplaced, result>>

\* flow_when_all_awaitable::cancel / flow_when_any_awaitable::cancel
AggCancel(t) ==
    /\ At(t, "agg_cancel")
    /\ LET f == Top(t) IN
         IF HasBit(agg.fired, launch_failed_msk)
         THEN Become(t, <<>>)
         ELSE Become(t, <<Fr("cancel_each", f.p, 1, f.v, 0)>>)
    /\ AggTouch
    /\ UNCHANGED <<nodes, passed, ex, runner, code, entry, observed, agg, state, handler, aw, started, hit, emplaced, result>>

\* a result that carried a result_delegate is destroyed
ResultDropped(t) ==
    /\ At(t, "in_dropped")
    /\ LET f == Top(t) IN
         /\ uaf' = (uaf \/ aw[f.p][f.i].freed)
         /\ aw' = [aw EXCEPT ![f.p][f.i] = Released(@)]
         /\ Become(t, <<>>)
    /\ UNCHANGED <<nodes, passed, ex, runner, code, entry, observed, agg, state, handler, started, hit, emplaced, result>>

\* the runner of child k, or the last task of child k, is destroyed
ChildDone(t) ==
    /\ At(t, "child_done")
    /\ HoldDropped(Top(t).p)
    /\ Become(t, <<>>)
    /\ UNCHANGED <<nodes, passed, ex, runner, code, entry, observed, state, handler, started, hit, emplaced, result>>

\* ---- when_all ----

\* a when_all submit() that launches without all_bps_present
WaSubmitNoPresenceCheck(t) ==
    /\ At(t, "submit")
    /\ LET f == Top(t) IN
         /\ nodes[f.p][f.i] = "when_all"
         /\ aw' = [aw EXCEPT ![f.p][f.i].submits = @ + 1,
                              ![f.p][f.i].outcome = "async"]
         /\ Become(t, <<Fr("wa_launch", f.p, f.i, f.v, 1),
                        Fr("wa_mark", f.p, f.i, f.v, f.tok)>>)
    /\ UNCHANGED <<nodes, passed, ex, runner, code, entry, observed, agg, state, handler, started, hit, emplaced, result, uaf>>

\* flow_when_all_awaitable::submit(): all_bps_present, then the launch loop
WaSubmit(t) ==
    /\ At(t, "submit")
    /\ LET f == Top(t) IN
         /\ nodes[f.p][f.i] = "when_all"
         /\ IF \E k \in Children : nodes[k] = <<>>
            THEN /\ aw' = [aw EXCEPT ![f.p][f.i].submits = @ + 1,
                                     ![f.p][f.i].outcome = "fail"]
                 /\ Become(t, <<Fr("sa_store_idle", f.p, f.i, f.v, f.tok)>>)
            ELSE /\ aw' = [aw EXCEPT ![f.p][f.i].submits = @ + 1,
                                     ![f.p][f.i].outcome = "async"]
                 /\ Become(t, <<Fr("wa_launch", f.p, f.i, f.v, 1),
                                Fr("wa_mark", f.p, f.i, f.v, f.tok)>>)
    /\ UNCHANGED <<nodes, passed, ex, runner, code, entry, observed, agg, state, handler, started, hit, emplaced, result, uaf>>

\* launch<I>(): fired += epoch, the child runner built around delegate<I>(this)
\* and started on controllers[I]; the loop ends after the last child
WaLaunch(t) ==
    /\ At(t, "wa_launch")
    /\ LET f == Top(t)
           k == Top(t).tok IN
         IF k > NChildren
         THEN /\ Become(t, <<>>)
              /\ UNCHANGED <<agg, aw, uaf>>
         ELSE /\ agg' = [agg EXCEPT !.fired = @ + detail_epoch, !.hold[k] = 2]
              /\ aw' = [aw EXCEPT ![f.p][f.i].refcount = @ + 1]
              /\ AggTouch
              /\ Become(t, <<Fr("operator_call", k, 0, "val", 0),
                             Fr("child_done", k, 0, "none", 0),
                             Fr("wa_launch", f.p, f.i, f.v, k + 1)>>)
    /\ UNCHANGED <<nodes, passed, ex, runner, code, entry, observed, state, handler, started, hit, emplaced, result>>

\* submit(): fetch_or(launch_success_msk); every child had already finished
\* when it returns 0, and the parent is resumed from here
WaMark(t) ==
    /\ At(t, "wa_mark")
    /\ LET f == Top(t) IN
         /\ agg' = [agg EXCEPT !.fired = fetch_or(@, launch_success_msk)]
         /\ IF agg.fired = 0
            THEN Become(t, <<Fr("wa_read", f.p, f.i, f.v, 0),
                             Fr("guard", f.p, f.i, f.v, f.tok)>>)
            ELSE Become(t, <<Fr("guard", f.p, f.i, f.v, f.tok)>>)
    /\ AggTouch
    /\ UNCHANGED <<nodes, passed, ex, runner, code, entry, observed, state, handler, aw, started, hit, emplaced, result>>

\* failed.load(), then resume(value), the value a result_delegate that
\* retains the aggregator, or resume(any_failed(i)); made is the index i the
\* error was made with
WaRead(t) ==
    /\ At(t, "wa_read")
    /\ IF agg.failed = NChildren
       THEN /\ aw' = [aw EXCEPT ![0][AggStage].refcount = @ + 1]
            /\ Become(t, <<Fr("resume", 0, AggStage, "val", 1)>>)
       ELSE /\ aw' = aw
            /\ Become(t, <<Fr("resume", 0, AggStage, "any_failed", 0)>>)
    /\ agg' = [agg EXCEPT !.made = agg.failed]
    /\ AggTouch
    /\ UNCHANGED <<nodes, passed, ex, runner, code, entry, observed, state, handler, started, hit, emplaced, result>>

\* ipc<0>::run of child k with the receiver flow_when_all_state::delegate<I>:
\* emplace stores the result in slot I; an error cancels every controller
WaEmplace(t) ==
    /\ At(t, "run")
    /\ Top(t).i = 0
    /\ Top(t).p > 0
    /\ AggKind = "when_all"
    /\ LET f == Top(t) IN
         /\ emplaced' = [emplaced EXCEPT ![f.p] = @ + 1]
         /\ result' = [result EXCEPT ![f.p] = f.v]
         /\ IF f.v = "val"
            THEN Become(t, <<Fr("wa_sub", f.p, 0, f.v, 0),
                             Fr("child_done", f.p, 0, "none", 0)>>)
            ELSE Become(t, <<Fr("cancel_each", f.p, 1, f.v, 0),
                             Fr("wa_cas", f.p, 0, f.v, 0),
                             Fr("child_done", f.p, 0, "none", 0)>>)
    /\ AggTouch
    /\ UNCHANGED <<nodes, passed, ex, runner, code, entry, observed, agg, state, handler, aw, started, hit>>

\* an emplace that does not record the failed child
WaCasSkipped(t) ==
    /\ At(t, "wa_cas")
    /\ LET f == Top(t) IN
         Become(t, <<Fr("wa_sub", f.p, 0, f.v, 0)>>)
    /\ AggTouch
    /\ UNCHANGED <<nodes, passed, ex, runner, code, entry, observed, agg, state, handler, aw, started, hit, emplaced, result>>

\* an emplace that records the index of the child after the failed one
WaCasNextIndex(t) ==
    /\ At(t, "wa_cas")
    /\ LET f == Top(t) IN
         /\ agg' = [agg EXCEPT !.failed = IF @ = NChildren THEN f.p % NChildren ELSE @]
         /\ Become(t, <<Fr("wa_sub", f.p, 0, f.v, 0)>>)
    /\ AggTouch
    /\ UNCHANGED <<nodes, passed, ex, runner, code, entry, observed, state, handler, aw, started, hit, emplaced, result>>

\* delegate<I>::emplace: failed.compare_exchange_strong(N, I)
WaCas(t) ==
    /\ At(t, "wa_cas")
    /\ LET f == Top(t) IN
         /\ agg' = [agg EXCEPT !.failed = IF @ = NChildren THEN f.p - 1 ELSE @]
         /\ Become(t, <<Fr("wa_sub", f.p, 0, f.v, 0)>>)
    /\ AggTouch
    /\ UNCHANGED <<nodes, passed, ex, runner, code, entry, observed, state, handler, aw, started, hit, emplaced, result>>

\* delegate<I>::emplace: fired.fetch_sub(epoch) == successfully_finished
WaSub(t) ==
    /\ At(t, "wa_sub")
    /\ LET f == Top(t) IN
         /\ agg' = [agg EXCEPT !.fired = @ - detail_epoch]
         /\ IF agg.fired = successfully_finished
            THEN Become(t, <<Fr("wa_read", f.p, 0, f.v, 0)>>)
            ELSE Become(t, <<>>)
    /\ AggTouch
    /\ UNCHANGED <<nodes, passed, ex, runner, code, entry, observed, state, handler, aw, started, hit, emplaced, result>>

\* ---- when_any ----

\* flow_when_any_awaitable::submit(): the launch loop
WySubmit(t) ==
    /\ At(t, "submit")
    /\ LET f == Top(t) IN
         /\ nodes[f.p][f.i] = "when_any"
         /\ aw' = [aw EXCEPT ![f.p][f.i].submits = @ + 1]
         /\ Become(t, <<Fr("wy_launch", f.p, f.i, f.v, 1),
                        Fr("wy_mark", f.p, f.i, f.v, f.tok)>>)
    /\ UNCHANGED <<nodes, passed, ex, runner, code, entry, observed, agg, state, handler, started, hit, emplaced, result, uaf>>

\* a when_any launch loop that a null blueprint ends with nothing launched
WyLaunchNullFails(t) ==
    /\ At(t, "wy_launch")
    /\ LET f == Top(t)
           k == Top(t).tok IN
         IF k > NChildren \/ ~agg.keep
         THEN /\ Become(t, <<>>)
              /\ UNCHANGED <<agg, aw, uaf>>
         ELSE IF nodes[k] = <<>>
         THEN /\ agg' = [agg EXCEPT !.keep = FALSE, !.count = 0]
              /\ Become(t, <<>>)
              /\ AggTouch
              /\ aw' = aw
         ELSE /\ agg' = [agg EXCEPT !.fired = @ + detail_epoch, !.hold[k] = 2,
                                    !.count = @ + 1]
              /\ aw' = [aw EXCEPT ![f.p][f.i].refcount = @ + 1]
              /\ AggTouch
              /\ Become(t, <<Fr("operator_call", k, 0, "val", 0),
                             Fr("child_done", k, 0, "none", 0),
                             Fr("wy_check", f.p, f.i, f.v, k)>>)
    /\ UNCHANGED <<nodes, passed, ex, runner, code, entry, observed, state, handler, started, hit, emplaced, result>>

\* launch<I>(): -1 for a null blueprint, else fired += epoch and the child
\* runner started; the loop stops at the last child or once keep_launching is false
WyLaunch(t) ==
    /\ At(t, "wy_launch")
    /\ LET f == Top(t)
           k == Top(t).tok IN
         IF k > NChildren \/ ~agg.keep
         THEN /\ Become(t, <<>>)
              /\ UNCHANGED <<agg, aw, uaf>>
         ELSE IF nodes[k] = <<>>
         THEN /\ Become(t, <<Fr("wy_check", f.p, f.i, f.v, k)>>)
              /\ AggTouch
              /\ UNCHANGED <<agg, aw>>
         ELSE /\ agg' = [agg EXCEPT !.fired = @ + detail_epoch, !.hold[k] = 2,
                                    !.count = @ + 1]
              /\ aw' = [aw EXCEPT ![f.p][f.i].refcount = @ + 1]
              /\ AggTouch
              /\ Become(t, <<Fr("operator_call", k, 0, "val", 0),
                             Fr("child_done", k, 0, "none", 0),
                             Fr("wy_check", f.p, f.i, f.v, k)>>)
    /\ UNCHANGED <<nodes, passed, ex, runner, code, entry, observed, state, handler, started, hit, emplaced, result>>

\* a launch loop that goes on whatever the winner index holds
WyCheckKeepsLaunching(t) ==
    /\ At(t, "wy_check")
    /\ LET f == Top(t) IN
         /\ agg' = [agg EXCEPT !.keep = TRUE]
         /\ Become(t, <<Fr("wy_launch", f.p, f.i, f.v, f.tok + 1)>>)
    /\ AggTouch
    /\ UNCHANGED <<nodes, passed, ex, runner, code, entry, observed, state, handler, aw, started, hit, emplaced, result>>

\* submit(index_sequence): keep_launching = (winner.load() == N)
WyCheck(t) ==
    /\ At(t, "wy_check")
    /\ LET f == Top(t) IN
         /\ agg' = [agg EXCEPT !.keep = (agg.winner = NChildren)]
         /\ Become(t, <<Fr("wy_launch", f.p, f.i, f.v, f.tok + 1)>>)
    /\ AggTouch
    /\ UNCHANGED <<nodes, passed, ex, runner, code, entry, observed, state, handler, aw, started, hit, emplaced, result>>

\* submit(): no child launched -> launch_failed_msk and -1; otherwise
\* fetch_or(launch_success_msk), and all_failed from here when every launched
\* child had already finished
WyMark(t) ==
    /\ At(t, "wy_mark")
    /\ LET f == Top(t) IN
         IF agg.count = 0
         THEN /\ agg' = [agg EXCEPT !.fired = fetch_or(@, launch_failed_msk)]
              /\ aw' = [aw EXCEPT ![f.p][f.i].outcome = "fail"]
              /\ Become(t, <<Fr("sa_store_idle", f.p, f.i, f.v, f.tok)>>)
         ELSE /\ agg' = [agg EXCEPT !.fired = fetch_or(@, launch_success_msk)]
              /\ aw' = [aw EXCEPT ![f.p][f.i].outcome = "async"]
              /\ IF agg.fired = 0
                 THEN Become(t, <<Fr("wy_read", f.p, f.i, f.v, 0),
                                  Fr("guard", f.p, f.i, f.v, f.tok)>>)
                 ELSE Become(t, <<Fr("guard", f.p, f.i, f.v, f.tok)>>)
    /\ AggTouch
    /\ UNCHANGED <<nodes, passed, ex, runner, code, entry, observed, state, handler, started, hit, emplaced, result>>

\* winner.load() == N -> resume(all_failed); in delegate<I>::emplace the test
\* is `!i_won && winner == N`, and i_won implies winner != N
WyRead(t) ==
    /\ At(t, "wy_read")
    /\ IF agg.winner = NChildren
       THEN Become(t, <<Fr("resume", 0, AggStage, "all_failed", 0)>>)
       ELSE Become(t, <<>>)
    /\ AggTouch
    /\ UNCHANGED <<nodes, passed, ex, runner, code, entry, observed, agg, state, handler, aw, started, hit, emplaced, result>>

\* ipc<0>::run of child k with the receiver flow_when_any_state::delegate<I>:
\* emplace stores the result in slot I
WyEmplace(t) ==
    /\ At(t, "run")
    /\ Top(t).i = 0
    /\ Top(t).p > 0
    /\ AggKind = "when_any"
    /\ LET f == Top(t) IN
         /\ emplaced' = [emplaced EXCEPT ![f.p] = @ + 1]
         /\ result' = [result EXCEPT ![f.p] = f.v]
         /\ Become(t, <<Fr(IF f.v = "val" THEN "wy_cas" ELSE "wy_sub", f.p, 0, f.v, 0),
                        Fr("child_done", f.p, 0, "none", 0)>>)
    /\ AggTouch
    /\ UNCHANGED <<nodes, passed, ex, runner, code, entry, observed, agg, state, handler, aw, started, hit>>

\* an emplace that stores the winner index without comparing
WyCasExchange(t) ==
    /\ At(t, "wy_cas")
    /\ LET f == Top(t) IN
         /\ agg' = [agg EXCEPT !.winner = f.p - 1]
         /\ aw' = [aw EXCEPT ![0][AggStage].refcount = @ + 1]
         /\ Become(t, <<Fr("resume", 0, AggStage, "val", 1),
                        Fr("cancel_each", f.p, 1, f.v, 0),
                        Fr("wy_sub", f.p, 0, f.v, 0)>>)
    /\ AggTouch
    /\ UNCHANGED <<nodes, passed, ex, runner, code, entry, observed, state, handler, started, hit, emplaced, result>>

\* a winner that cancels every controller before it resumes the parent
WyCasCancelFirst(t) ==
    /\ At(t, "wy_cas")
    /\ LET f == Top(t) IN
         IF agg.winner = NChildren
         THEN /\ agg' = [agg EXCEPT !.winner = f.p - 1]
              /\ aw' = [aw EXCEPT ![0][AggStage].refcount = @ + 1]
              /\ Become(t, <<Fr("cancel_each", f.p, 1, f.v, 0),
                             Fr("resume", 0, AggStage, "val", 1),
                             Fr("wy_sub", f.p, 0, f.v, 0)>>)
         ELSE /\ agg' = agg
              /\ aw' = aw
              /\ Become(t, <<Fr("wy_sub", f.p, 0, f.v, 0)>>)
    /\ AggTouch
    /\ UNCHANGED <<nodes, passed, ex, runner, code, entry, observed, state, handler, started, hit, emplaced, result>>

\* delegate<I>::emplace with a value: winner.compare_exchange_strong(N, I);
\* the winner resumes the parent and then cancels every controller
WyCas(t) ==
    /\ At(t, "wy_cas")
    /\ LET f == Top(t) IN
         IF agg.winner = NChildren
         THEN /\ agg' = [agg EXCEPT !.winner = f.p - 1]
              /\ aw' = [aw EXCEPT ![0][AggStage].refcount = @ + 1]
              /\ Become(t, <<Fr("resume", 0, AggStage, "val", 1),
                             Fr("cancel_each", f.p, 1, f.v, 0),
                             Fr("wy_sub", f.p, 0, f.v, 0)>>)
         ELSE /\ agg' = agg
              /\ aw' = aw
              /\ Become(t, <<Fr("wy_sub", f.p, 0, f.v, 0)>>)
    /\ AggTouch
    /\ UNCHANGED <<nodes, passed, ex, runner, code, entry, observed, state, handler, started, hit, emplaced, result>>

\* delegate<I>::emplace: fired.fetch_sub(epoch) == successfully_finished
WySub(t) ==
    /\ At(t, "wy_sub")
    /\ LET f == Top(t) IN
         /\ agg' = [agg EXCEPT !.fired = @ - detail_epoch]
         /\ IF agg.fired = successfully_finished
            THEN Become(t, <<Fr("wy_read", f.p, 0, f.v, 0)>>)
            ELSE Become(t, <<>>)
    /\ AggTouch
    /\ UNCHANGED <<nodes, passed, ex, runner, code, entry, observed, state, handler, aw, started, hit, emplaced, result>>

\* ------------------------------------------------------------------------
\* The run of one full runner
\* ------------------------------------------------------------------------
Next ==
    \E t \in Threads :
        \/ OperatorCall(t)
        \/ RunEnd(t)
        \/ RunForceCheck(t)
        \/ DispatchCalc(t)
        \/ DispatchVia(t)
        \/ DispatchAsyncCanceled(t)
        \/ DispatchAsyncCreateFailed(t)
        \/ DispatchAsyncCreate(t)
        \/ LockCanceled(t)
        \/ LockAcquire(t)
        \/ SetHandler(t)
        \/ SubmitAsync(t)
        \/ SubmitFails(t)
        \/ SubmitSync(t)
        \/ SubmitBackend(t)
        \/ SubmitAsyncStoreIdle(t)
        \/ SubmitFailedReset(t)
        \/ SubmitFailedClear(t)
        \/ SubmitFailedUnlock(t)
        \/ SubmitFailedDispatch(t)
        \/ GuardUnlock(t)
        \/ Resume(t)
        \/ DoResume(t)
        \/ Release(t)
        \/ AwaitableCancel(t)
        \/ ContCas(t)
        \/ ContReset(t)
        \/ ContClear(t)
        \/ ContUnlock(t)
        \/ ResetCancelHandler(t)
        \/ ResetCancelHandlerDrop(t)
        \/ ResetCancelHandlerClear(t)
        \/ ResetCancelHandlerStore(t)
        \/ GetController(t)
        \/ CancelCall(t)
        \/ CancelReturn(t)
        \/ CancelCas(t)
        \/ CancelInvoke(t)
        \/ CancelDrop(t)
        \/ CancelClear(t)

Spec == Init /\ [][Next]_vars

\* ------------------------------------------------------------------------
\* The run of a full runner whose blueprint is one aggregator stage over
\* NChildren child blueprints
\* ------------------------------------------------------------------------
\* a child is a null blueprint, one stage, or a calc stage behind a via stage;
\* at most MaxAwaitChildren children have an await stage
MaxAwaitChildren == 1
ChildBlueprints == {<<>>, <<"calc">>, <<"via">>, <<"await">>, <<"calc", "via">>}
InlineBlueprints == {<<>>, <<"calc">>}

AwaitChildren(c) == {k \in Children : c[k] = <<"await">>}

ChildPacks ==
    {c \in [Children -> ChildBlueprints] : Cardinality(AwaitChildren(c)) <= MaxAwaitChildren}

\* the packs in which an await child runs beside children that finish inside launch()
QuietPacks ==
    {c \in ChildPacks :
        AwaitChildren(c) # {} => \A k \in Children \ AwaitChildren(c) : c[k] \in InlineBlueprints}

AggNodes(kind, packs) ==
    {[p \in Pipes |-> IF p = 0 THEN <<kind>> ELSE c[p]] : c \in packs}

InitAll ==
    /\ nodes \in AggNodes("when_all", ChildPacks)
    /\ runner = flow_runner(TRUE, TRUE)
    /\ PInit

\* the run of when_all: nobody calls cancel() on the controller of pipeline 0,
\* the child controllers are cancelled by the aggregator itself
NextAll ==
    \E t \in Threads :
        \/ OperatorCall(t) \/ RunEnd(t) \/ RunForceCheck(t) \/ DispatchCalc(t)
        \/ DispatchVia(t) \/ DispatchAsyncCreateFailed(t)
        \/ DispatchAsyncCreate(t) \/ LockCanceled(t) \/ LockAcquire(t) \/ SetHandler(t)
        \/ SubmitAsync(t) \/ SubmitFails(t) \/ SubmitSync(t) \/ SubmitBackend(t)
        \/ SubmitAsyncStoreIdle(t) \/ SubmitFailedReset(t) \/ SubmitFailedClear(t)
        \/ SubmitFailedUnlock(t) \/ SubmitFailedDispatch(t) \/ GuardUnlock(t)
        \/ Resume(t) \/ DoResume(t) \/ Release(t) \/ AwaitableCancel(t)
        \/ ContCas(t) \/ ContReset(t) \/ ContClear(t) \/ ContUnlock(t)
        \/ ResetCancelHandler(t) \/ ResetCancelHandlerDrop(t)
        \/ ResetCancelHandlerClear(t) \/ ResetCancelHandlerStore(t)
        \/ CancelReturn(t) \/ CancelCas(t) \/ CancelInvoke(t) \/ CancelDrop(t)
        \/ CancelClear(t)
        \/ CancelEach(t) \/ ChildDone(t) \/ ResultDropped(t)
        \/ WaSubmit(t) \/ WaLaunch(t) \/ WaMark(t) \/ WaRead(t)
        \/ WaEmplace(t) \/ WaCas(t) \/ WaSub(t)

SpecAll == InitAll /\ [][NextAll]_vars

InitAny ==
    /\ nodes \in AggNodes("when_any", QuietPacks)
    /\ runner = flow_runner(TRUE, TRUE)
    /\ PInit

\* the run of when_any, in the same environment; only the winner cancels the
\* child controllers, so no cancel() finds its controller already cancelled,
\* and in QuietPacks no child reaches its await stage after the winner's cancel.
\* An access to the deleted aggregator is undefined behaviour: the run is
\* followed up to and including that access, and no further
NextAny ==
    /\ ~uaf
    /\ \E t \in Threads :
         \/ OperatorCall(t) \/ RunEnd(t) \/ RunForceCheck(t) \/ DispatchCalc(t)
         \/ DispatchVia(t) \/ DispatchAsyncCreateFailed(t)
         \/ DispatchAsyncCreate(t) \/ LockAcquire(t) \/ SetHandler(t)
         \/ SubmitAsync(t) \/ SubmitFails(t) \/ SubmitSync(t) \/ SubmitBackend(t)
         \/ SubmitAsyncStoreIdle(t) \/ SubmitFailedReset(t) \/ SubmitFailedClear(t)
         \/ SubmitFailedUnlock(t) \/ SubmitFailedDispatch(t) \/ GuardUnlock(t)
         \/ Resume(t) \/ DoResume(t) \/ Release(t) \/ AwaitableCancel(t)
         \/ ContCas(t) \/ ContReset(t) \/ ContClear(t) \/ ContUnlock(t)
         \/ ResetCancelHandler(t) \/ ResetCancelHandlerDrop(t)
         \/ ResetCancelHandlerClear(t) \/ ResetCancelHandlerStore(t)
         \/ CancelCas(t) \/ CancelInvoke(t) \/ CancelDrop(t) \/ CancelClear(t)
         \/ CancelEach(t) \/ ChildDone(t) \/ ResultDropped(t)
         \/ WySubmit(t) \/ WyLaunch(t) \/ WyCheck(t) \/ WyMark(t) \/ WyRead(t)
         \/ WyEmplace(t) \/ WyCas(t) \/ WySub(t)

SpecAny == InitAny /\ [][NextAny]_vars

\* ------------------------------------------------------------------------
\* awaitable_base on its own (flow_awaitable.h): one awaitable with its
\* next-step and its cancel handler installed, submit_async called up to
\* MaxCalls times through the access_delegate, the cancel_fn called through the
\* handler, the backend calling resume(). As under the runner, which holds the
\* controller locked across submit_async, the calls of submit_async exclude
\* each other and the cancel_fn, and none starts once cancel has been called.
\* ------------------------------------------------------------------------
InitAw ==
    /\ nodes = [p \in Pipes |-> IF p = 0 THEN <<"await">> ELSE <<>>]
    /\ runner = flow_runner(TRUE, TRUE)
    /\ ex = simple_executor
    /\ passed = NoError
    /\ state = [p \in Pipes |-> none]
    /\ handler = [p \in Pipes |-> IF p = 0 THEN 1 ELSE 0]
    /\ aw = [p \in Pipes |-> [i \in Stages |->
                IF p = 0 /\ i = 1
                THEN [NewAw EXCEPT !.created = TRUE, !.refcount = 2, !.retains = 1]
                ELSE NewAw]]
    /\ stk = [t \in Threads |-> <<>>]
    /\ started = {}
    /\ hit = {}
    /\ emplaced = [p \in Pipes |-> 0]
    /\ result = [p \in Pipes |-> "none"]
    /\ uaf = FALSE
    /\ agg = [fired |-> 0, failed |-> NChildren, winner |-> NChildren,
              hold |-> [k \in Children |-> 0], count |-> 0, keep |-> TRUE,
              made |-> NChildren]
    /\ code = [c \in Callers |-> "none"]
    /\ entry = -1
    /\ observed = none

\* no call of submit_async and no cancel_fn is running
NoCallRunning ==
    \A u \in Cancellers \cup {CallerT(c) : c \in Callers} : stk[u] = <<>>

\* call c of delegate().submit_async()
SubmitAsyncCall(t) ==
    /\ \E c \in Callers : t = CallerT(c) /\ code[c] = "none"
    /\ NoCallRunning
    /\ started = {}
    /\ stk' = [stk EXCEPT ![t] = <<Fr("submit_async", 0, 1, "val", 0)>>]
    /\ UNCHANGED <<nodes, passed, ex, runner, code, entry, observed, agg, state, handler, aw, started, hit, emplaced, result, uaf>>

\* submit_async returns to its caller: 0, -1, or the code of submit()
SubmitAsyncReturn(t) ==
    /\ At(t, "guard") \/ At(t, "sf_reset")
    /\ code' = [code EXCEPT ![t[3]] = IF Top(t).pc = "guard" THEN "ok" ELSE Top(t).v]
    /\ Become(t, <<>>)
    /\ UNCHANGED <<nodes, passed, ex, runner, entry, observed, agg, state, handler, aw, started, hit, emplaced, result, uaf>>

\* the holder of the handler triple calls cancel_fn(cancel_param, kind)
CancelFnCall(t) ==
    /\ t \in Cancellers
    /\ t \notin started
    /\ NoCallRunning
    /\ started' = started \cup {t}
    /\ stk' = [stk EXCEPT ![t] = <<Fr("aw_cancel", 0, 1, CancelError(t[3]), 0)>>]
    /\ UNCHANGED <<nodes, passed, ex, runner, code, entry, observed, agg, state, handler, aw, hit, emplaced, result, uaf>>

\* the task next_step posted runs
NextStepTask(t) ==
    /\ At(t, "cont")
    /\ Become(t, <<>>)
    /\ UNCHANGED <<nodes, passed, ex, runner, code, entry, observed, agg, state, handler, aw, started, hit, emplaced, result, uaf>>

NextAw ==
    \E t \in Threads :
        \/ SubmitAsyncCall(t) \/ SubmitAsync(t) \/ SubmitFails(t) \/ SubmitSync(t)
        \/ SubmitBackend(t) \/ SubmitAsyncStoreIdle(t) \/ SubmitAsyncReturn(t)
        \/ Resume(t) \/ DoResume(t) \/ Release(t)
        \/ CancelFnCall(t) \/ AwaitableCancel(t) \/ NextStepTask(t)

SpecAw == InitAw /\ [][NextAw]_vars

\* one step of thread t other than the decision to call cancel(): a dispatched
\* task runs, a backend calls back, a function that was entered goes on
Step(t) ==
    \/ OperatorCall(t) \/ RunEnd(t) \/ RunForceCheck(t) \/ DispatchCalc(t)
    \/ DispatchVia(t) \/ DispatchAsyncCanceled(t) \/ DispatchAsyncCreateFailed(t)
    \/ DispatchAsyncCreate(t) \/ LockCanceled(t) \/ LockAcquire(t) \/ SetHandler(t)
    \/ SubmitAsync(t) \/ SubmitFails(t) \/ SubmitSync(t) \/ SubmitBackend(t)
    \/ SubmitAsyncStoreIdle(t) \/ SubmitFailedReset(t) \/ SubmitFailedClear(t)
    \/ SubmitFailedUnlock(t) \/ SubmitFailedDispatch(t) \/ GuardUnlock(t)
    \/ Resume(t) \/ DoResume(t) \/ Release(t) \/ AwaitableCancel(t)
    \/ ContCas(t) \/ ContReset(t) \/ ContClear(t) \/ ContUnlock(t)
    \/ ResetCancelHandler(t) \/ ResetCancelHandlerDrop(t)
    \/ ResetCancelHandlerClear(t) \/ ResetCancelHandlerStore(t)
    \/ CancelReturn(t) \/ CancelCas(t) \/ CancelInvoke(t) \/ CancelDrop(t)
    \/ CancelClear(t)

\* while some thread has something to run, some thread runs; only the decision
\* to call cancel() is left to the environment
FairSpec == Spec /\ WF_vars(\E t \in Threads : Step(t))

\* no thread has anything left to run
Quiescent == \A t \in Threads : stk[t] = <<>>

CancelResults == {CancelError(soft), CancelError(hard)}

\* ------------------------------------------------------------------------
\* Claims
\* ------------------------------------------------------------------------

CancelDuringAwait ==
    /\ \A i \in hit :
         /\ aw[0][i].next <= 1
         /\ aw[0][i].next = 1 => aw[0][i].got \in CancelResults \cup {"val"}
    /\ 1 \in hit =>
         /\ emplaced[0] <= 1
         /\ emplaced[0] = 1 => result[0] \in CancelResults \cup {"val"}
         /\ Quiescent => emplaced[0] = 1

CancelDuringAwaitWitness ==
    /\ 1 \in hit
    /\ emplaced[0] = 1
    /\ result[0] = CancelError(hard)
    /\ aw[0][1].cancels = 1

\* C4 as stated: an awaitable whose lifetime is over had its next-step
\* continuation invoked exactly once.
NextStepExactlyOnce ==
    \A i \in Stages : aw[0][i].freed => aw[0][i].next = 1

\* C4 amended: the next-step continuation is invoked at most once; over the
\* awaitable's lifetime it is invoked exactly once when submit() started the
\* operation, and never when submit() failed or submit_async was not called.
NextStepOnceIffSubmitted ==
    \A i \in Stages :
        /\ aw[0][i].next <= 1
        /\ aw[0][i].freed =>
             aw[0][i].next = (IF aw[0][i].outcome \in {"sync", "async"} THEN 1 ELSE 0)

NextStepOnceIffSubmittedWitness ==
    \E i \in Stages :
        /\ aw[0][i].freed
        /\ aw[0][i].outcome = "async"
        /\ aw[0][i].next = 1
        /\ i \in hit
        /\ started = Cancellers

\* C5: the retain taken by provide_cancel_handler is matched by exactly one
\* drop_fn call on every path: never more drops than retains, and none
\* missing once every thread has come to rest.
HandlerDropMatched ==
    \A i \in Stages :
        /\ aw[0][i].drops <= aw[0][i].retains
        /\ aw[0][i].freed => aw[0][i].drops = aw[0][i].retains
        /\ Quiescent => aw[0][i].drops = aw[0][i].retains

\* the guard has unlocked before the continuation ran, and the continuation
\* has just dropped the handler under reset_cancel_handler's own lock
HandlerDropMatchedWitness ==
    \E t \in Threads :
        /\ At(t, "rch_clear")
        /\ aw[0][Top(t).i].drops = 1
        /\ started # {}

\* C6: a when_all aggregator resumes its parent exactly once under every
\* interleaving of child completions with the launch loop: never twice, never
\* before every child has delivered its result, once when every thread has
\* come to rest; with the value if and only if every child produced a value,
\* with any_failed otherwise. A when_all that refuses to launch (a null child)
\* hands the parent the submission error instead, once.
WhenAllResumesOnce ==
    LET a == aw[0][AggStage]
        AllVal == \A k \in Children : result[k] = "val"
    IN  /\ a.next <= 1
        /\ emplaced[0] <= 1
        /\ a.next = 1 =>
              /\ \A k \in Children : emplaced[k] = 1
              /\ a.got = (IF AllVal THEN "val" ELSE "any_failed")
        /\ (Quiescent /\ a.created) =>
              /\ a.next = (IF a.outcome = "async" THEN 1 ELSE 0)
              /\ emplaced[0] = 1
              /\ result[0] = (IF a.outcome = "async" THEN a.got ELSE "submit_err")

\* the parent was resumed with any_failed although a child produced a value
WhenAllResumesOnceWitness ==
    /\ aw[0][AggStage].next = 1
    /\ aw[0][AggStage].got = "any_failed"
    /\ \E k \in Children : result[k] = "val"
    /\ \E k \in Children : result[k] = "calc_err"

\* C7: a when_any aggregator resumes its parent exactly once: with the value
\* of the child that wins the winner-index CAS, the first child that produced
\* a value, the index never changing once set; or with all_failed if and only
\* if no child produced a value. A when_any that launched no child hands the
\* parent the submission error instead, once.
WhenAnyResumesOnce ==
    /\ [](
        LET a == aw[0][AggStage]
            NoVal == \A k \in Children : result[k] # "val"
        IN  /\ a.next <= 1
            /\ emplaced[0] <= 1
            /\ agg.winner # NChildren => result[agg.winner + 1] = "val"
            /\ a.next = 1 =>
                  a.got = (IF agg.winner # NChildren THEN "val" ELSE "all_failed")
            /\ (a.next = 1 /\ a.got = "all_failed") =>
                  /\ NoVal
                  /\ \A k \in Children : nodes[k] # <<>> => emplaced[k] = 1
            /\ (Quiescent /\ a.created) =>
                  /\ a.next = (IF a.outcome = "async" THEN 1 ELSE 0)
                  /\ emplaced[0] = 1
                  /\ result[0] = (IF a.outcome = "async" THEN a.got ELSE "submit_err")
                  /\ a.got = "all_failed" <=> (a.outcome = "async" /\ NoVal))
    /\ [][agg.winner # NChildren => agg'.winner = agg.winner]_vars

\* the parent was resumed with the winner's value and another child, which
\* also produced a value, lost the CAS
WhenAnyResumesOnceWitness ==
    /\ aw[0][AggStage].next = 1
    /\ aw[0][AggStage].got = "val"
    /\ agg.winner # NChildren
    /\ \E k \in Children : k # agg.winner + 1 /\ result[k] = "val"

\* C8 as stated: by the time the receiver's emplace has been called, the
\* reference count of every awaitable created during the run is 0.
RefcountZeroAtEmplace ==
    emplaced[0] >= 1 => \A i \in Stages : aw[0][i].created => aw[0][i].refcount = 0

\* C8 amended: the reference count of every awaitable created during the run
\* never goes below 0 and is 0 (the awaitable deleted) once the run has
\* terminated and every thread that held a reference (the resuming thread,
\* the backend callback, a racing cancel) has returned.
RefcountClosure ==
    \A i \in Stages :
        /\ aw[0][i].refcount >= 0
        /\ (Quiescent /\ aw[0][i].created) =>
              (aw[0][i].refcount = 0 /\ aw[0][i].freed /\ emplaced[0] = 1)

RefcountClosureWitness ==
    /\ Quiescent
    /\ \E i \in Stages :
         aw[0][i].created /\ aw[0][i].refcount = 0 /\ aw[0][i].cancels = 1

TripleStableWhileLocked ==
    /\ [](\A p \in Pipes :
            LET InCancel(t) == \E k \in 1..Len(stk[t]) :
                                   /\ stk[t][k].p = p
                                   /\ stk[t][k].pc \in {"cancel_invoke", "cancel_drop", "cancel_clear"}
                Holder(t) == /\ stk[t] # <<>>
                             /\ Top(t).p = p
                             /\ \/ /\ Top(t).pc \in {"set_handler", "sf_reset", "sf_clear"}
                                   /\ state[p] = Top(t).tok
                                \/ /\ Top(t).pc \in {"cont_reset", "cont_clear"}
                                   /\ state[p] = Top(t).tok + epoch
                                \/ /\ Top(t).pc \in {"rch_drop", "rch_clear"}
                                   /\ state[p] = Top(t).tok + locked
                Accessing(t) == /\ stk[t] # <<>>
                                /\ Top(t).p = p
                                /\ Top(t).pc \in {"set_handler", "sf_reset", "sf_clear", "cont_reset",
                                                  "cont_clear", "rch_drop", "rch_clear"}
            IN  /\ \A t \in Threads : Accessing(t) => (Low(state[p]) = locked /\ Holder(t))
                /\ Low(state[p]) = locked =>
                      /\ \A t \in Threads : ~InCancel(t)
                      /\ Cardinality({t \in Threads : Accessing(t)}) <= 1)
    /\ [][\A p \in Pipes :
            (Low(state[p]) = locked /\ handler'[p] # handler[p]) =>
                \E t \in Threads :
                    /\ stk[t] # <<>>
                    /\ stk'[t] # stk[t]
                    /\ Top(t).p = p
                    /\ Top(t).pc \in {"set_handler", "sf_clear", "cont_clear", "rch_clear"}]_vars

\* the continuation is clearing the triple under the lock while a cancel()
\* that was called is held back at its CAS
TripleStableWhileLockedWitness ==
    /\ Low(state[0]) = locked
    /\ handler[0] # 0
    /\ \E t \in Threads : At(t, "cont_clear")
    /\ \E c \in Cancellers : At(c, "cancel")

HardCancelBeforeStart ==
    entry = hard =>
        /\ \A i \in Stages : ~aw[0][i].created
        /\ emplaced[0] <= 1
        /\ emplaced[0] = 1 => result[0] = CancelError(hard)
        /\ Quiescent => emplaced[0] = 1

\* cancel(true) had returned before runner(x) was invoked on a blueprint
\* whose first stage is an await, and the receiver has the hard cancel error
HardCancelBeforeStartWitness ==
    /\ entry = hard
    /\ nodes[0][Len(nodes[0])] = "await"
    /\ emplaced[0] = 1
    /\ result[0] = CancelError(hard)

\* C14 as stated: once the submit() of an awaitable of the run has returned
\* nonzero, the receiver is called exactly once and what it is given is the
\* async-submission-failed error; read for the blueprints in which every
\* stage after the await passes an error on (transform, then, via)
SubmitFailSurfaces ==
    \A i \in Stages :
        (/\ aw[0][i].outcome = "fail"
         /\ \A k \in 1..(i - 1) : nodes[0][k] \in {"calc", "via"}) =>
            /\ emplaced[0] <= 1
            /\ emplaced[0] = 1 => result[0] = "submit_err"
            /\ Quiescent => emplaced[0] = 1

\* C14, amended: once the submit() of an awaitable has returned nonzero the
\* stage after the await is handed the async-submission-failed error and the
\* receiver is called exactly once; the receiver is given that error when
\* the await is the last stage before end, and when only calc and via stages
\* follow it is given that error or the error of a cancel the controller
\* carries
SubmitFailSurfacesNextStage ==
    /\ [](\A i \in Stages :
            aw[0][i].outcome = "fail" =>
                /\ emplaced[0] <= 1
                /\ Quiescent => emplaced[0] = 1
                /\ (emplaced[0] = 1 /\ i = 1) => result[0] = "submit_err"
                /\ (emplaced[0] = 1 /\ \A k \in 1..(i - 1) : nodes[0][k] \in {"calc", "via"}) =>
                       \/ result[0] = "submit_err"
                       \/ /\ is_canceled(state[0])
                          /\ result[0] = CancelError(Low(state[0])))
    /\ [][\A t \in Threads :
            (/\ At(t, "sf_release")
             /\ stk'[t] = <<>> \/ Head(stk'[t]) # Head(stk[t])) =>
                LET f == Top(t)
                    task == Fr("run", f.p, f.i - 1, "submit_err", 0)
                    w == WorkerT(f.p, f.i - 1)
                IN  \/ stk'[t] = <<task>> \o Tail(stk[t])
                    \/ stk'[w] = (IF w = t THEN Tail(stk[t]) ELSE stk[w]) \o <<task>>]_vars

\* the submit() of the awaitable of stage 2 returned nonzero, a soft cancel
\* was observed at the dispatch of the calc stage after it, and the receiver
\* was given the soft cancel error
SubmitFailSurfacesNextStageWitness ==
    /\ Len(nodes[0]) = 2
    /\ nodes[0][1] = "calc"
    /\ aw[0][2].outcome = "fail"
    /\ emplaced[0] = 1
    /\ result[0] = CancelError(soft)

HardCancelBypasses ==
    /\ [](observed = hard =>
            /\ is_force_canceled(state[0])
            /\ \A t \in Threads : \A k \in 1..Len(stk[t]) :
                  stk[t][k].p = 0 =>
                      /\ stk[t][k].pc # "run_soft"
                      /\ stk[t][k].pc = "run" => stk[t][k].i = 0 /\ stk[t][k].v = CancelError(hard)
                      /\ stk[t][k].pc \notin {"lock", "set_handler", "submit_async", "submit"}
            /\ emplaced[0] <= 1
            /\ emplaced[0] = 1 => result[0] = CancelError(hard)
            /\ Quiescent => emplaced[0] = 1)
    /\ [][/\ observed = hard => \A i \in Stages : aw'[0][i].created = aw[0][i].created
          /\ \A t \in Threads :
               (/\ At(t, "run")
                /\ Top(t).p = 0
                /\ Top(t).i > 0
                /\ is_force_canceled(state[0])
                /\ stk'[t] = <<>> \/ Head(stk'[t]) # Head(stk[t])) =>
                   /\ observed' = hard
                   /\ aw' = aw
                   /\ stk' = [stk EXCEPT ![t] =
                                 <<Fr("run", 0, 0, CancelError(hard), 0)>> \o Tail(@)]]_vars

\* the await of stage 2 completed in a run that was started without a
\* cancel, the dispatch of stage 1, an await, read the hard flag, no
\* awaitable was created for it and the receiver has the hard cancel error
HardCancelBypassesWitness ==
    /\ observed = hard
    /\ entry = none
    /\ Len(nodes[0]) = 2
    /\ nodes[0][1] = "await"
    /\ aw[0][2].next = 1
    /\ ~aw[0][1].created
    /\ emplaced[0] = 1
    /\ result[0] = CancelError(hard)

\* C17: a cancel() that finds the state word already flagged soft or hard
\* returns and changes nothing; a flagged state word never changes again, so
\* the kind of the first cancel stays; only the one cancel() whose CAS set
\* the flag is ever inside the handler part of cancel(), its kind is the
\* recorded one, and no awaitable has its cancel run twice
CancelOnceOnly ==
    /\ [](LET HandlerPart == {"cancel_invoke", "aw_cancel", "cancel_drop", "cancel_clear"}
              In(c) == \E k \in 1..Len(stk[c]) : stk[c][k].pc \in HandlerPart
          IN  /\ \A t \in Cancellers :
                    In(t) => /\ Low(state[0]) = t[3]
                             /\ \A u \in Cancellers \ {t} : ~In(u)
              /\ \A t \in Threads \ Cancellers : ~In(t)
              /\ \A i \in Stages : aw[0][i].cancels <= 1)
    /\ [][is_canceled(state[0]) => state'[0] = state[0]]_vars
    /\ [][\A t \in Cancellers :
            (At(t, "cancel") /\ is_canceled(state[0]) /\ stk'[t] # stk[t]) =>
                /\ stk' = [stk EXCEPT ![t] = <<>>]
                /\ UNCHANGED <<nodes, passed, ex, runner, state, handler, aw, started, hit, emplaced, result,
                               uaf, agg, code, entry, observed>>]_vars

\* cancel(true) was called while the controller carried the soft flag of an
\* earlier cancel() that had cancelled the awaitable of stage 1: it has
\* returned and the flag is still soft
CancelOnceOnlyWitness ==
    /\ is_soft_canceled(state[0])
    /\ Cancellers \subseteq started
    /\ \A t \in Cancellers : stk[t] = <<>>
    /\ aw[0][1].cancels = 1
    /\ aw[0][1].drops = 1

\* C18: when the receiver has been called and no cancel has flagged the
\* controller, the state word is unlocked and the handler triple is the
\* stubs; a cancel() applied after the receiver was called either returns at
\* once or sets its flag and runs the stubs: none of its steps touches an
\* awaitable, the triple or the receiver, and the receiver is never called
\* again
CancelAfterEnd ==
    /\ [](/\ (emplaced[0] >= 1 /\ ~is_canceled(state[0])) =>
                (handler[0] = 0 /\ Low(state[0]) = none)
          /\ \A t \in Cancellers : \A k \in 1..Len(stk[t]) :
                stk[t][k].v = "after_end" =>
                    /\ emplaced[0] = 1
                    /\ stk[t][k].pc \in {"cancel", "cancel_invoke", "cancel_drop", "cancel_clear"}
                    /\ stk[t][k].pc # "cancel" => handler[0] = 0)
    /\ [][\A t \in Cancellers :
            (/\ stk[t] # <<>>
             /\ Top(t).v = "after_end"
             /\ stk'[t] # stk[t]) =>
                UNCHANGED <<aw, handler, emplaced, result, uaf>>]_vars
    /\ [][emplaced[0] >= 1 => (emplaced' = emplaced /\ result' = result)]_vars

\* the await of stage 1 completed and the receiver was called, then cancel()
\* was applied: it has set its flag and is about to return
CancelAfterEndWitness ==
    /\ \E t \in Cancellers : At(t, "cancel_clear") /\ Top(t).v = "after_end"
    /\ is_canceled(state[0])
    /\ aw[0][1].created
    /\ aw[0][1].next = 1
    /\ aw[0][1].cancels = 0
    /\ emplaced[0] = 1

\* C19: a when_all one of whose sub-blueprint pointers is null launches
\* nothing: no launch is counted, no child pipeline ever has a frame, a
\* controller flag, an awaitable or a result, not even the children whose
\* blueprint is present; submit() is called once and fails, and the receiver
\* is called once with the async-submission-failed error
WhenAllRejectsNull ==
    (AggKind = "when_all" /\ \E k \in Children : nodes[k] = <<>>) =>
        /\ agg.fired = 0
        /\ \A k \in Children :
              /\ emplaced[k] = 0
              /\ state[k] = none
              /\ \A i \in Stages : ~aw[k][i].created
              /\ \A t \in Threads : \A j \in 1..Len(stk[t]) :
                    stk[t][j].pc \in {"operator_call", "run", "run_soft"} => stk[t][j].p # k
        /\ aw[0][1].submits <= 1
        /\ aw[0][1].outcome \in {"none", "fail"}
        /\ emplaced[0] <= 1
        /\ emplaced[0] = 1 =>
              result[0] = (IF aw[0][1].created THEN "submit_err" ELSE "create_err")
        /\ Quiescent => emplaced[0] = 1

\* child 1 null, child 2 present: submit() was called and the receiver has
\* the async-submission-failed error
WhenAllRejectsNullWitness ==
    /\ AggKind = "when_all"
    /\ nodes[1] = <<>>
    /\ nodes[2] # <<>>
    /\ aw[0][1].submits = 1
    /\ emplaced[0] = 1
    /\ result[0] = "submit_err"

\* C20: a when_any skips the null sub-blueprints: a null child is never
\* started and is not counted; submit() fails exactly when every
\* sub-blueprint is null, and the receiver then gets the
\* async-submission-failed error; with a null child beside a valid one the
\* submission succeeds and the receiver gets the value of a valid child that
\* produced one, all_failed if none did
WhenAnySkipsNull ==
    AggKind = "when_any" =>
        LET a == aw[0][AggStage]
            Null == {k \in Children : nodes[k] = <<>>}
        IN  /\ \A k \in Null :
                  /\ emplaced[k] = 0
                  /\ agg.hold[k] = 0
                  /\ \A i \in Stages : ~aw[k][i].created
                  /\ \A t \in Threads : \A j \in 1..Len(stk[t]) :
                        stk[t][j].pc \in {"operator_call", "run", "run_soft"} => stk[t][j].p # k
            /\ agg.count <= Cardinality(Children \ Null)
            /\ a.outcome = "fail" <=> (Null = Children /\ a.submits = 1 /\ a.outcome # "none")
            /\ (emplaced[0] = 1 /\ a.created) =>
                  result[0] = (IF Null = Children THEN "submit_err"
                               ELSE IF \E k \in Children : result[k] = "val" THEN "val"
                               ELSE "all_failed")
            /\ (emplaced[0] = 1 /\ result[0] = "val") =>
                  /\ agg.winner + 1 \in Children \ Null
                  /\ result[agg.winner + 1] = "val"
            /\ (Quiescent /\ a.created) => emplaced[0] = 1

\* child 1 null, child 2 valid: the run came to rest with the receiver
\* holding the value of child 2
WhenAnySkipsNullWitness ==
    /\ AggKind = "when_any"
    /\ nodes[1] = <<>>
    /\ nodes[2] # <<>>
    /\ agg.winner + 1 = 2
    /\ emplaced[0] = 1
    /\ result[0] = "val"
    /\ Quiescent
    /\ ~uaf

\* C21: when a when_all aggregator does not succeed because a child failed,
\* the any_failed error the parent's next stage receives was made with the
\* index of a child that has delivered its result and whose result slot holds
\* an error; the recorded failed index never names a child whose slot holds a
\* value.
WhenAllFailedIndex ==
    LET a == aw[0][AggStage] IN
      /\ agg.failed # NChildren =>
            /\ emplaced[agg.failed + 1] = 1
            /\ result[agg.failed + 1] # "val"
      /\ (a.next = 1 /\ a.got = "any_failed") =>
            /\ agg.made \in 0..(NChildren - 1)
            /\ agg.made = agg.failed
            /\ emplaced[agg.made + 1] = 1
            /\ result[agg.made + 1] # "val"
      /\ (a.next = 1 /\ a.got = "val") => agg.made = NChildren

\* the parent was resumed with any_failed made with the index of the second
\* child, the first child having produced a value
WhenAllFailedIndexWitness ==
    /\ aw[0][AggStage].next = 1
    /\ aw[0][AggStage].got = "any_failed"
    /\ agg.made = 1
    /\ result[1] = "val"
    /\ result[2] # "val"
    /\ emplaced[0] = 1

\* C22: once operator() has been called on a full runner and has returned,
\* get_controller() returns a non-null controller, the one that governs the
\* run: the runner's controller member is still set, whatever stages the
\* blueprint has and however the runner was built.
ControllerAfterCall ==
    (entry # -1 /\ stk[MainT] = <<>>) => runner.controller

\* ------------------------------------------------------------------------
\* simple_executor: dispatch(), run(), try_shutdown(), one atomic access a step
\* ------------------------------------------------------------------------

ExAt(th, pc) == ~ex.aborted /\ ex.pc[th] = pc

FlowIdle ==
    UNCHANGED <<nodes, passed, runner, state, handler, aw, stk, started, hit, emplaced, result,
                uaf, agg, code, entry, observed>>

\* where dispatch() returns to: a producer is done, the consumer is back in
\* the task that called it, which returns to run()
Ret(th) == IF th = Consumer THEN "r_sub" ELSE "idle"

\* where try_pop() and a finished task return to in run(): the first loop or
\* the loop that clears the pending queue
Back == IF ex.phase = "drain" THEN "r_drain" ELSE "r_loop"

\* producer th calls dispatch(task th); late records that try_shutdown() had
\* been called before
DispatchCall(th) ==
    /\ th \in Producers
    /\ ExAt(th, "idle")
    /\ th \notin ex.called
    /\ ex' = [ex EXCEPT !.pc[th] = "d_add", !.arg[th] = th,
                        !.called = @ \cup {th},
                        !.late = IF ex.requests > 0 THEN @ \cup {th} ELSE @]
    /\ FlowIdle

\* dispatch(): pending.fetch_add(1)
DispatchAdd(th) ==
    /\ ExAt(th, "d_add")
    /\ ex' = [ex EXCEPT !.pending = @ + 1, !.pc[th] = "d_check"]
    /\ FlowIdle

\* dispatch(): state.load() & shutdown -> pending.fetch_sub(1), abort();
\* a task that passes has bought its ticket
DispatchCheck(th) ==
    /\ ExAt(th, "d_check")
    /\ IF ex.state = shutdown
       THEN ex' = [ex EXCEPT !.pending = @ - 1, !.aborted = TRUE]
       ELSE ex' = [ex EXCEPT !.admitted = @ \cup {ex.arg[th]}, !.pc[th] = "d_load"]
    /\ FlowIdle

\* try_emplace(): t = t_.load()
EmplaceLoad(th) ==
    /\ ExAt(th, "d_load")
    /\ ex' = [ex EXCEPT !.tl[th] = ex.t, !.pc[th] = "d_ready"]
    /\ FlowIdle

\* try_emplace(): slot.ready.load() == 0, else false
EmplaceReady(th) ==
    /\ ExAt(th, "d_ready")
    /\ ex' = [ex EXCEPT !.pc[th] =
                 IF ex.slot[ex.tl[th] % capacity].ready = 0 THEN "d_cas" ELSE "d_full"]
    /\ FlowIdle

\* try_emplace(): t_.compare_exchange_strong(t, t + 1), else false
EmplaceCas(th) ==
    /\ ExAt(th, "d_cas")
    /\ IF ex.t = ex.tl[th]
       THEN ex' = [ex EXCEPT !.t = @ + 1, !.pc[th] = "d_construct"]
       ELSE ex' = [ex EXCEPT !.pc[th] = "d_full"]
    /\ FlowIdle

\* try_emplace(): slot.storage.construct(std::move(object)); over an object
\* that is still there the storage ends up holding the new task, the old one,
\* or neither
EmplaceConstruct(th) ==
    /\ ExAt(th, "d_construct")
    /\ LET i == ex.tl[th] % capacity IN
         IF ex.slot[i].data = 0
         THEN ex' = [ex EXCEPT !.slot[i].data = ex.arg[th], !.slot[i].last = ex.arg[th],
                               !.pc[th] = "d_publish"]
         ELSE \E d \in {ex.arg[th], ex.slot[i].data, -1} :
                ex' = [ex EXCEPT !.slot[i].data = d, !.slot[i].last = d,
                                 !.ub = TRUE, !.pc[th] = "d_publish"]
    /\ FlowIdle

\* try_emplace(): slot.ready.store(1), true; dispatch() returns
EmplacePublish(th) ==
    /\ ExAt(th, "d_publish")
    /\ ex' = [ex EXCEPT !.slot[ex.tl[th] % capacity].ready = 1, !.pc[th] = Ret(th)]
    /\ FlowIdle

\* dispatch(): try_emplace() was false: on the consumer thread, current() ==
\* this, pending.fetch_sub(1) and the task runs inline; any other thread
\* backs off and tries again
DispatchFull(th) ==
    /\ ExAt(th, "d_full")
    /\ IF th = Consumer /\ ex.current
       THEN ex' = [ex EXCEPT !.pending = @ - 1, !.ran[ex.arg[th]] = @ + 1,
                             !.pc[th] = Ret(th)]
       ELSE ex' = [ex EXCEPT !.pc[th] = "d_load"]
    /\ FlowIdle

\* the consumer thread calls run()
RunCall(th) ==
    /\ th = Consumer
    /\ ExAt(th, "idle")
    /\ ex.runs < MaxRuns
    /\ ex' = [ex EXCEPT !.runs = @ + 1, !.pc[th] = "r_cas"]
    /\ FlowIdle

\* run(): state.compare_exchange_strong(idle, running), else return;
\* current() = this
RunCas(th) ==
    /\ ExAt(th, "r_cas")
    /\ IF ex.state = idle
       THEN ex' = [ex EXCEPT !.state = running, !.current = TRUE, !.phase = "loop",
                             !.pc[th] = "r_loop"]
       ELSE ex' = [ex EXCEPT !.returned = @ + 1, !.pc[th] = "idle"]
    /\ FlowIdle

\* run(), first loop: until state.load() & shutdown, try_pop()
RunLoop(th) ==
    /\ ExAt(th, "r_loop")
    /\ IF ex.state = shutdown
       THEN ex' = [ex EXCEPT !.phase = "drain", !.pc[th] = "r_drain"]
       ELSE ex' = [ex EXCEPT !.pc[th] = "p_ready"]
    /\ FlowIdle

\* run(), second loop: while pending.load(), try_pop(); then current() =
\* nullptr and run() returns
RunDrain(th) ==
    /\ ExAt(th, "r_drain")
    /\ IF ex.pending = 0
       THEN ex' = [ex EXCEPT !.current = FALSE, !.returned = @ + 1, !.pc[th] = "idle"]
       ELSE ex' = [ex EXCEPT !.pc[th] = "p_ready"]
    /\ FlowIdle

\* try_pop(): !slot.ready.load() -> empty
PopReady(th) ==
    /\ ExAt(th, "p_ready")
    /\ ex' = [ex EXCEPT !.pc[th] =
                 IF ex.slot[ex.h % capacity].ready = 0 THEN Back ELSE "p_take"]
    /\ FlowIdle

\* try_pop(): res.emplace(std::move(slot.data())); slot.destroy(). From a
\* storage that holds no object it moves what the bytes last held, or
\* nothing that can be called, or the process dies
PopTake(th) ==
    /\ ExAt(th, "p_take")
    /\ LET i == ex.h % capacity IN
         IF ex.slot[i].data > 0
         THEN ex' = [ex EXCEPT !.cur = ex.slot[i].data, !.slot[i].data = 0,
                               !.pc[th] = "p_clear"]
         ELSE \/ \E c \in {0, IF ex.slot[i].last > 0 THEN ex.slot[i].last ELSE 0} :
                   ex' = [ex EXCEPT !.cur = c, !.slot[i].data = 0, !.ub = TRUE,
                                    !.pc[th] = "p_clear"]
              \/ ex' = [ex EXCEPT !.ub = TRUE, !.aborted = TRUE]
    /\ FlowIdle

\* try_pop(): slot.ready.store(0); ++_h
PopClear(th) ==
    /\ ExAt(th, "p_clear")
    /\ ex' = [ex EXCEPT !.slot[ex.h % capacity].ready = 0, !.h = @ + 1,
                        !.pc[th] = "r_exec"]
    /\ FlowIdle

\* run(): p.get()(): the task runs; task 1 calls dispatch() from inside
RunTask(th) ==
    /\ ExAt(th, "r_exec")
    /\ IF ex.cur = 0
       THEN ex' = [ex EXCEPT !.pc[th] = "r_sub"]
       ELSE IF Spawn(ex.cur) # 0 /\ Spawn(ex.cur) \notin ex.called
            THEN ex' = [ex EXCEPT !.ran[ex.cur] = @ + 1,
                                  !.called = @ \cup {Spawn(ex.cur)},
                                  !.late = IF ex.requests > 0
                                           THEN @ \cup {Spawn(ex.cur)} ELSE @,
                                  !.arg[th] = Spawn(ex.cur), !.pc[th] = "d_add"]
            ELSE ex' = [ex EXCEPT !.ran[ex.cur] = @ + 1, !.pc[th] = "r_sub"]
    /\ FlowIdle

\* run(): pending.fetch_sub(1) after the task
RunSub(th) ==
    /\ ExAt(th, "r_sub")
    /\ ex' = [ex EXCEPT !.pending = @ - 1, !.pc[th] = Back]
    /\ FlowIdle

\* try_shutdown(): compare_exchange_weak(running, shutdown), which may fail
\* for no reason; true when it succeeds or finds shutdown. early records a
\* call made before run() was called, acked that a call returned true
TryShutdown ==
    /\ ~ex.aborted
    /\ ex.requests < MaxShutdowns
    /\ \/ /\ ex.state = running
          /\ ex' = [ex EXCEPT !.state = shutdown, !.requests = @ + 1, !.acked = TRUE,
                              !.early = @ \/ ex.runs = 0]
       \/ ex' = [ex EXCEPT !.requests = @ + 1, !.acked = @ \/ ex.state = shutdown,
                           !.early = @ \/ ex.runs = 0]
    /\ FlowIdle

\* no pipeline runs; the executor starts as constructed
InitExec ==
    /\ nodes = [p \in Pipes |-> <<>>]
    /\ runner = flow_runner(TRUE, TRUE)
    /\ ex = simple_executor
    /\ passed = NoError
    /\ state = [p \in Pipes |-> none]
    /\ handler = [p \in Pipes |-> 0]
    /\ aw = [p \in Pipes |-> [i \in Stages |-> NewAw]]
    /\ stk = [t \in Threads |-> <<>>]
    /\ started = {}
    /\ hit = {}
    /\ emplaced = [p \in Pipes |-> 0]
    /\ result = [p \in Pipes |-> "none"]
    /\ uaf = FALSE
    /\ agg = [fired |-> 0, failed |-> NChildren, winner |-> NChildren,
              hold |-> [k \in Children |-> 0], count |-> 0, keep |-> TRUE,
              made |-> NChildren]
    /\ code = [c \in Callers |-> "none"]
    /\ entry = -1
    /\ observed = none

\* one step of thread th inside a call it has made
ExStep(th) ==
    \/ DispatchAdd(th) \/ DispatchCheck(th) \/ EmplaceLoad(th) \/ EmplaceReady(th)
    \/ EmplaceCas(th) \/ EmplaceConstruct(th) \/ EmplacePublish(th) \/ DispatchFull(th)
    \/ RunCas(th) \/ RunLoop(th) \/ RunDrain(th) \/ PopReady(th) \/ PopTake(th)
    \/ PopClear(th) \/ RunTask(th) \/ RunSub(th)

NextExec ==
    \/ TryShutdown
    \/ \E th \in ExThreads :
        \/ DispatchCall(th)
        \/ DispatchAdd(th)
        \/ DispatchCheck(th)
        \/ EmplaceLoad(th)
        \/ EmplaceReady(th)
        \/ EmplaceCas(th)
        \/ EmplaceConstruct(th)
        \/ EmplacePublish(th)
        \/ DispatchFull(th)
        \/ RunCall(th)
        \/ RunCas(th)
        \/ RunLoop(th)
        \/ RunDrain(th)
        \/ PopReady(th)
        \/ PopTake(th)
        \/ PopClear(th)
        \/ RunTask(th)
        \/ RunSub(th)

SpecExec == InitExec /\ [][NextExec]_vars

\* every thread that is inside dispatch() or run() goes on running; when to
\* call dispatch(), run() and try_shutdown() is left to the program
FairSpecExec == SpecExec /\ \A th \in ExThreads : WF_vars(ExStep(th))

\* C23: when run() has returned, shutdown has been observed and every task
\* admitted by dispatch() has been executed exactly once, popped by run() or
\* run inline by the consumer thread when the queue was full; no task is lost
\* and none runs twice, whatever the producers do.
AdmittedRunOnce ==
    /\ \A task \in Tasks : ex.ran[task] <= 1
    /\ ex.returned >= 1 =>
          /\ ex.state = shutdown
          /\ \A task \in ex.admitted : ex.ran[task] = 1

\* C24: tasks dispatched before run() are executed even when shutdown was
\* requested before run() started: once run() is called after such a request
\* it executes each admitted task exactly once and then returns (runs in which
\* the process was aborted or the queue's storage was written twice set
\* aside).
EarlyShutdownRunReturns ==
    (ex.early /\ ex.runs >= 1)
        ~> \/ ex.returned >= 1 /\ \A task \in ex.admitted : ex.ran[task] = 1
           \/ ex.aborted
           \/ ex.ub

\* C25: a dispatch() called after shutdown was requested fails fast: it
\* returns or aborts, and never blocks forever, also when the queue is full
\* and no consumer is running (runs in which the queue's storage was written
\* twice set aside).
LateDispatchFailsFast ==
    \A th \in Producers :
        (th \in ex.late /\ ex.pc[th] # "idle")
            ~> (ex.pc[th] = "idle" \/ ex.aborted \/ ex.ub)

\* ------------------------------------------------------------------------
\* The run of a full runner whose blueprint has no async stage: up to
\* MaxCalcStages stages of transform/then, on_error and via, with cancels
\* ------------------------------------------------------------------------
CalcKinds == {"calc", "on_error", "via"}

CalcBlueprints ==
    {s \in UNION {[1..n -> CalcKinds] : n \in 1..MaxCalcStages} : ValidBp(s)}

InitCalc ==
    /\ nodes \in {[p \in Pipes |-> IF p = 0 THEN b ELSE <<>>] : b \in CalcBlueprints}
    /\ runner = flow_runner(TRUE, TRUE)
    /\ PInit

NextCalc ==
    \E t \in Threads :
        \/ OperatorCall(t)
        \/ RunEnd(t)
        \/ RunForceCheck(t)
        \/ DispatchCalc(t)
        \/ DispatchVia(t)
        \/ CancelCall(t)
        \/ CancelReturn(t)
        \/ CancelCas(t)
        \/ CancelInvoke(t)
        \/ CancelDrop(t)
        \/ CancelClear(t)

SpecCalc == InitCalc /\ [][NextCalc]_vars

\* only transform, then and via stages follow stage i of the run
OnlyCalcViaAfter(i) == \A k \in 1..(i - 1) : nodes[0][k] \in {"calc", "via"}

\* C26 as stated: a calc stage that is handed an error passes it on without
\* calling its callable, and the receiver is given that error unchanged
\* unless an on_error / catch_exception stage follows
CalcErrorReachesReceiver ==
    (/\ passed.v # "none"
     /\ emplaced[0] = 1
     /\ OnlyCalcViaAfter(passed.i)) => result[0] = passed.v

\* C26, amended: a calc stage that is handed an error does not call its
\* callable and hands the same error to the next stage; when only calc and
\* via stages follow, the receiver is given that error or the error of a
\* cancel the controller carries
CalcErrorPassedOn ==
    /\ []((/\ passed.v # "none"
           /\ emplaced[0] = 1
           /\ OnlyCalcViaAfter(passed.i)) =>
              \/ result[0] = passed.v
              \/ /\ is_canceled(state[0])
                 /\ result[0] = CancelError(Low(state[0])))
    /\ [][\A t \in Threads :
            (/\ At(t, "run_soft")
             /\ nodes[Top(t).p][Top(t).i] = "calc"
             /\ StageIn(Top(t)) # "val"
             /\ stk'[t] # stk[t]) =>
                stk'[t] = <<Fr("run", Top(t).p, Top(t).i - 1, StageIn(Top(t)), 0)>>
                          \o Tail(stk[t])]_vars

\* the first of three stages failed, the calc stage after it passed the
\* error on, and the receiver behind the via stage was given it
CalcErrorPassedOnWitness ==
    /\ Len(nodes[0]) = 3
    /\ nodes[0][1] = "via"
    /\ passed = [v |-> "calc_err", i |-> 2]
    /\ emplaced[0] = 1
    /\ result[0] = "calc_err"

\* the positions inside flow_when_any_awaitable::submit() from which the
\* aggregator's members are read or written again
WySubmitPcs == {"wy_launch", "wy_check", "wy_mark", "wy_read"}

\* C27: no awaitable is destroyed while its own submit() is still executing
\* and will access its state again: a when_any aggregator whose submit() has
\* its launch loop or the update of fired still ahead has not been deleted,
\* and no deleted awaitable is accessed, also when the first child wins
\* synchronously and the parent runs to its end before submit() returns
AliveDuringSubmit ==
    /\ ~uaf
    /\ \A t \in Threads : \A n \in 1..Len(stk[t]) :
         (stk[t][n].pc \in WySubmitPcs /\ stk[t][n].p = 0) => ~aw[0][AggStage].freed

\* the backend of the awaitable of stage i has not called resume()
BackendPending(i) ==
    /\ aw[0][i].outcome = "async"
    /\ stk[BackendT(0, i)] # <<>>
    /\ Head(stk[BackendT(0, i)]).pc = "resume"

\* every thread but the backend of stage i has come to rest
RestBut(i) == \A t \in Threads \ {BackendT(0, i)} : stk[t] = <<>>

NoOnErrorAfter(i) == \A k \in 1..(i - 1) : nodes[0][k] # "on_error"

\* C28: a cancel() called while an awaitable is in flight, also while the
\* runner still holds the controller locked around submit_async, is not lost:
\* the awaitable's cancel() is invoked at most once, and when the backend
\* never completes on its own it has been invoked exactly once by the time
\* the other threads have come to rest, the continuation was given the cancel
\* error of the controller's kind and the run ended with the receiver called
\* (with that error unless an on_error stage follows); a cancel() that finds
\* the state word locked waits and neither returns nor calls the handler
CancelInFlightAsked ==
    /\ [](\A i \in hit :
            /\ aw[0][i].cancels <= 1
            /\ (BackendPending(i) /\ RestBut(i)) =>
                 /\ is_canceled(state[0])
                 /\ aw[0][i].cancels = 1
                 /\ aw[0][i].next = 1
                 /\ aw[0][i].got = CancelError(Low(state[0]))
                 /\ emplaced[0] = 1
                 /\ NoOnErrorAfter(i) => result[0] = CancelError(Low(state[0])))
    /\ [][\A t \in Cancellers :
            (At(t, "cancel") /\ Low(state[0]) = locked) => stk'[t] = stk[t]]_vars

\* a hard cancel was called while the awaitable of the last stage was in
\* flight, the backend never called resume(), and the run has ended with the
\* awaitable's cancel() called once
CancelInFlightAskedWitness ==
    /\ 1 \in hit
    /\ BackendPending(1)
    /\ RestBut(1)
    /\ aw[0][1].cancels = 1
    /\ aw[0][1].got = CancelError(hard)
    /\ emplaced[0] = 1
    /\ result[0] = CancelError(hard)

\* ------------------------------------------------------------------------
\* The run of a full runner over one await stage whose awaitable calls
\* cancel() on the controller of the run from inside its submit()
\* ------------------------------------------------------------------------

\* the cancel() calls made from inside submit()
InnerCall(kind) == <<"i", 0, kind>>

\* derived submit() calls controller->cancel(force) before it posts its work;
\* the runner called submit_async with the state word locked
SubmitCallsCancel(t) ==
    /\ At(t, "submit")
    /\ LET f == Top(t) IN
         /\ nodes[f.p][f.i] = "await"
         /\ f.p = 0
         /\ \E kind \in {soft, hard} :
              /\ \A k \in {soft, hard} : InnerCall(k) \notin started
              /\ started' = started \cup {InnerCall(kind)}
              /\ stk' = [stk EXCEPT ![t] = <<Fr("cancel", f.p, 0, Applied(f.p), kind)>> \o @]
    /\ UNCHANGED <<nodes, passed, ex, runner, code, entry, observed, agg, state, handler, aw, hit, emplaced, result, uaf>>

InitIn ==
    /\ nodes = [p \in Pipes |-> IF p = 0 THEN <<"await">> ELSE <<>>]
    /\ runner = flow_runner(TRUE, TRUE)
    /\ PInit

NextIn ==
    \E t \in Threads :
        \/ OperatorCall(t) \/ RunEnd(t) \/ RunForceCheck(t)
        \/ DispatchAsyncCanceled(t) \/ DispatchAsyncCreateFailed(t)
        \/ DispatchAsyncCreate(t) \/ LockCanceled(t) \/ LockAcquire(t) \/ SetHandler(t)
        \/ SubmitAsync(t) \/ SubmitFails(t) \/ SubmitSync(t) \/ SubmitBackend(t)
        \/ SubmitCallsCancel(t)
        \/ SubmitAsyncStoreIdle(t) \/ SubmitFailedReset(t) \/ SubmitFailedClear(t)
        \/ SubmitFailedUnlock(t) \/ SubmitFailedDispatch(t) \/ GuardUnlock(t)
        \/ Resume(t) \/ DoResume(t) \/ Release(t) \/ AwaitableCancel(t)
        \/ ContCas(t) \/ ContReset(t) \/ ContClear(t) \/ ContUnlock(t)
        \/ ResetCancelHandler(t) \/ ResetCancelHandlerDrop(t)
        \/ ResetCancelHandlerClear(t) \/ ResetCancelHandlerStore(t)
        \/ CancelCall(t) \/ CancelReturn(t) \/ CancelCas(t) \/ CancelInvoke(t)
        \/ CancelDrop(t) \/ CancelClear(t)

SpecIn == InitIn /\ [][NextIn]_vars

\* thread t is inside the section of dispatch_async_node that holds the
\* state word of p locked: submit_async up to the guard's unlock
InLockedSection(t, p) ==
    \E n \in 1..Len(stk[t]) : stk[t][n].p = p /\ stk[t][n].pc \in {"submit", "guard"}

\* C29: every call of cancel() returns after finitely many steps from any
\* thread and any call site, code inside an awaitable's submit() included,
\* and the controller is not left locked for ever: a cancel() that finds the
\* state word locked is not waiting for a lock that only its own caller, once
\* cancel() has returned, would release
CancelNeverWaitsForItself ==
    \A t \in Threads :
        (At(t, "cancel") /\ Low(state[Top(t).p]) = locked) => ~InLockedSection(t, Top(t).p)

\* thread t has taken a step
Stepped(t) == stk'[t] = <<>> \/ Head(stk'[t]) # Head(stk[t])

\* the step of t hands exactly one task to the dispatcher of the stage: run
\* inline in place of the running frame, or queued on the stage's worker
OneTask(t, task) ==
    LET w == WorkerT(Head(task).p, Head(task).i) IN
      \/ stk'[t] = task \o Tail(stk[t])
      \/ /\ stk'[w] = (IF w = t THEN Tail(stk[t]) ELSE stk[w]) \o task
         /\ w # t => stk'[t] = Tail(stk[t])

\* an awaitable that was released with submit_async never called: nothing
\* was started, its continuation never ran, the handler's retain was dropped
NeverSubmitted ==
    \A i \in Stages :
        (aw[0][i].freed /\ aw[0][i].submits = 0) =>
            /\ is_canceled(state[0])
            /\ aw[0][i].status = "idle"
            /\ aw[0][i].outcome = "none"
            /\ aw[0][i].next = 0
            /\ aw[0][i].drops = aw[0][i].retains

\* the soft flag seen by dispatch at the entry of an async stage: no awaitable
\* is created and one task carries the soft cancel error to the next stage
SoftAtEntry(t) ==
    (/\ At(t, "run_soft")
     /\ IsAsync(nodes[Top(t).p][Top(t).i])
     /\ SoftSeen(Top(t))
     /\ Stepped(t)) =>
        /\ aw' = aw
        /\ state' = state
        /\ OneTask(t, <<Fr("run", Top(t).p, Top(t).i - 1, CancelError(soft), 0)>>)

\* lock_and_set_cancel_handler finds the controller cancelled: the state word
\* is left as it is, the handler is dropped, the awaitable released with
\* submit_async not called, and one task carries the cancel error on
CanceledAtLock(t) ==
    (/\ At(t, "lock")
     /\ is_canceled(state[Top(t).p])
     /\ Stepped(t)) =>
        LET f == Top(t) IN
          /\ state' = state
          /\ handler' = handler
          /\ aw'[f.p][f.i].submits = 0
          /\ aw'[f.p][f.i].status = "idle"
          /\ aw'[f.p][f.i].drops = aw[f.p][f.i].drops + 1
          /\ aw'[f.p][f.i].refcount = aw[f.p][f.i].refcount - 2
          /\ OneTask(t, <<Fr("run", f.p, f.i - 1, CancelError(Low(state[f.p])), 0)>>)

\* C30 as stated: once the controller is seen cancelled at an async stage no
\* operation is started; cancelled at stage entry, soft or hard, no awaitable
\* is created, cancelled at handler installation the lock is not taken, the
\* handler is dropped and the awaitable released without submit_async; in
\* both cases exactly one cancel-error task is dispatched to the next stage
CanceledAsyncDispatchesNext ==
    /\ []NeverSubmitted
    /\ [][\A t \in Threads :
            /\ SoftAtEntry(t)
            /\ CanceledAtLock(t)
            /\ (/\ At(t, "run")
                /\ Top(t).i > 0
                /\ IsAsync(nodes[Top(t).p][Top(t).i])
                /\ is_force_canceled(state[Top(t).p])
                /\ Stepped(t)) =>
                   /\ aw' = aw
                   /\ OneTask(t, <<Fr("run", Top(t).p, Top(t).i - 1, CancelError(hard), 0)>>)]_vars

\* C30, amended: as stated for a soft cancel seen at stage entry and for a
\* cancel found at handler installation; a hard cancel seen at stage entry
\* creates no awaitable either, and the run goes to the end stage with the
\* hard cancel error on the same thread, no task dispatched
CanceledAsyncStartsNothing ==
    /\ []NeverSubmitted
    /\ [][\A t \in Threads :
            /\ SoftAtEntry(t)
            /\ CanceledAtLock(t)
            /\ (/\ At(t, "run")
                /\ Top(t).i > 0
                /\ IsAsync(nodes[Top(t).p][Top(t).i])
                /\ is_force_canceled(state[Top(t).p])
                /\ Stepped(t)) =>
                   /\ aw' = aw
                   /\ stk'[t] = <<Fr("run", Top(t).p, 0, CancelError(hard), 0)>>
                                \o Tail(stk[t])]_vars

\* a hard cancel arrived between the dispatch of the await stage and its
\* handler installation: the awaitable was released unsubmitted and the
\* receiver was given the hard cancel error
CanceledAsyncStartsNothingWitness ==
    /\ nodes[0] = <<"await">>
    /\ aw[0][1].created
    /\ aw[0][1].freed
    /\ aw[0][1].submits = 0
    /\ emplaced[0] = 1
    /\ result[0] = CancelError(hard)

\* some thread has a frame at one of the positions pcs for stage i of the run
FrameAt(pcs, i) ==
    \E t \in Threads : \E n \in 1..Len(stk[t]) :
        stk[t][n].p = 0 /\ stk[t][n].i = i /\ stk[t][n].pc \in pcs

\* C31: when submit_async fails the handler is reset under the lock and the
\* controller is unlocked with the stub triple installed and the epoch
\* advanced; a cancel() that arrives afterwards never calls the failed
\* awaitable's cancel or drop function, and the failed awaitable is released
\* exactly once
SubmitFailResetsUnderLock ==
    /\ [](\A i \in Stages :
            aw[0][i].outcome = "fail" =>
                /\ aw[0][i].cancels = 0
                /\ ~FrameAt({"aw_cancel"}, i)
                /\ aw[0][i].drops <= 1
                /\ aw[0][i].refcount >= 0
                /\ ~uaf
                /\ FrameAt({"sa_store_idle", "sf_reset"}, i) =>
                     /\ Low(state[0]) = locked
                     /\ aw[0][i].drops = 0
                     /\ aw[0][i].refcount = 2
                /\ FrameAt({"sf_clear", "sf_unlock"}, i) =>
                     /\ Low(state[0]) = locked
                     /\ aw[0][i].drops = 1
                     /\ aw[0][i].refcount = 1
                /\ FrameAt({"sf_release"}, i) =>
                     /\ handler[0] = 0
                     /\ aw[0][i].refcount = 1
                /\ ~FrameAt({"submit", "sa_store_idle", "sf_reset", "sf_clear",
                             "sf_unlock", "sf_release"}, i) =>
                     /\ handler[0] # i
                     /\ aw[0][i].freed
                     /\ aw[0][i].refcount = 0
                     /\ aw[0][i].drops = 1)
    /\ [][\A t \in Threads :
            (At(t, "sf_unlock") /\ Stepped(t)) =>
                /\ handler[Top(t).p] = 0
                /\ state[Top(t).p] = Top(t).tok
                /\ Low(state'[Top(t).p]) = none
                /\ state'[Top(t).p] = state[Top(t).p] - locked + epoch]_vars

\* the submit of the only await stage failed, a cancel() arrived after the
\* unlock and set its flag, and the run has ended with the awaitable deleted
SubmitFailResetsUnderLockWitness ==
    /\ nodes[0] = <<"await">>
    /\ aw[0][1].outcome = "fail"
    /\ aw[0][1].freed
    /\ is_canceled(state[0])
    /\ emplaced[0] = 1
    /\ result[0] = "submit_err"
    /\ Quiescent

\* the frames of every thread that are about to call unlock(token)
UnlockFrames ==
    {fr \in UNION {{stk[t][n] : n \in 1..Len(stk[t])} : t \in Threads} :
        fr.pc \in {"guard", "sf_unlock"}}

\* C32: unlock(token) changes the state word only if it still equals token;
\* a successful unlock leaves the low bits none and the epoch one above the
\* token's; the tokens of the stages of a run grow with each lock taken, so
\* the token an earlier stage's guard still holds never equals the word a
\* later stage has locked, and that guard releases nothing
UnlockOnlyOwnEpoch ==
    /\ [](\A fr \in UnlockFrames :
            /\ Low(fr.tok) = locked
            /\ fr.tok = aw[fr.p][fr.i].tok
            /\ \A j \in 1..Len(nodes[fr.p]) :
                 (j < fr.i /\ aw[fr.p][j].tok # 0) =>
                     /\ fr.tok + epoch < aw[fr.p][j].tok
                     /\ (handler[fr.p] = j /\ Low(state[fr.p]) = locked) =>
                          state[fr.p] # fr.tok)
    /\ [][\A t \in Threads :
            ((At(t, "guard") \/ At(t, "sf_unlock")) /\ stk'[t] # stk[t]) =>
                LET f == Top(t)
                    s == state[f.p]
                    s2 == state'[f.p]
                IN  /\ s # f.tok => s2 = s
                    /\ s = f.tok =>
                         /\ Low(s2) = none
                         /\ s2 \div epoch = (f.tok \div epoch) + 1
                         /\ handler[f.p] \in {0, f.i}]_vars

\* the guard of the first await stage is about to unlock with its old token
\* while the word is locked under the token of the stage after it
UnlockOnlyOwnEpochWitness ==
    \E t \in Threads :
        /\ At(t, "guard")
        /\ Top(t).p = 0
        /\ Top(t).i = 2
        /\ handler[0] = 1
        /\ Low(state[0]) = locked
        /\ state[0] = aw[0][1].tok
        /\ state[0] # Top(t).tok

\* ------------------------------------------------------------------------
\* The run of one aggregator stage whose controller is cancelled from outside
\* ------------------------------------------------------------------------
\* the packs in which one child waits for a backend and the others end
\* inside launch(): the aggregator is in flight when submit() has returned
FullPacks ==
    {c \in ChildPacks : /\ \A k \in Children : c[k] \in {<<"calc">>, <<"await">>}
                        /\ AwaitChildren(c) # {}}

InitAggCancel ==
    /\ nodes \in AggNodes("when_all", FullPacks) \cup AggNodes("when_any", FullPacks)
    /\ runner = flow_runner(TRUE, TRUE)
    /\ PInit

\* the caller of the run calls cancel(force) on its controller once, while the
\* aggregator is in flight: submit_async has stored waiting and nobody has
\* resumed it yet. A call made while the runner holds the lock only spins
\* until the guard unlocks, so the call is taken up from the unlocked word
CancelOnce(t) ==
    /\ started = {}
    /\ aw[0][AggStage].status = "waiting"
    /\ Low(state[0]) = none
    /\ CancelCall(t)

\* an access to the deleted aggregator is undefined behaviour: the run is
\* followed up to and including that access, and no further
NextAggCancel ==
    /\ ~uaf
    /\ \E t \in Threads :
         \/ OperatorCall(t) \/ RunEnd(t) \/ RunForceCheck(t) \/ DispatchCalc(t)
         \/ DispatchAsyncCreate(t) \/ LockAcquire(t) \/ SetHandler(t)
         \/ SubmitAsync(t) \/ SubmitFails(t) \/ SubmitSync(t) \/ SubmitBackend(t)
         \/ SubmitAsyncStoreIdle(t) \/ SubmitFailedReset(t) \/ SubmitFailedClear(t)
         \/ SubmitFailedUnlock(t) \/ SubmitFailedDispatch(t) \/ GuardUnlock(t)
         \/ Resume(t) \/ DoResume(t) \/ Release(t) \/ AwaitableCancel(t)
         \/ ContCas(t) \/ ContReset(t) \/ ContClear(t) \/ ContUnlock(t)
         \/ ResetCancelHandler(t) \/ ResetCancelHandlerDrop(t)
         \/ ResetCancelHandlerClear(t) \/ ResetCancelHandlerStore(t)
         \/ CancelOnce(t) \/ CancelReturn(t) \/ CancelCas(t) \/ CancelInvoke(t)
         \/ CancelDrop(t) \/ CancelClear(t)
         \/ AggCancel(t) \/ CancelEach(t) \/ ChildDone(t) \/ ResultDropped(t)
         \/ WaSubmit(t) \/ WaLaunch(t) \/ WaMark(t) \/ WaRead(t)
         \/ WaEmplace(t) \/ WaCas(t) \/ WaSub(t)
         \/ WySubmit(t) \/ WyLaunch(t) \/ WyCheck(t) \/ WyMark(t) \/ WyRead(t)
         \/ WyEmplace(t) \/ WyCas(t) \/ WySub(t)

SpecAggCancel == InitAggCancel /\ [][NextAggCancel]_vars

\* the caller's cancel() has gone through the aggregator's cancel_fn and has
\* returned
ParentCancelReturned ==
    /\ aw[0][AggStage].cancels = 1
    /\ \A c \in started : stk[c] = <<>>

\* C33: a cancel() of the parent's controller that finds a when_all or a
\* when_any in flight hard-cancels every child controller and resumes the
\* parent exactly once, with the cancel error of its kind; a child that
\* completes later does not resume the parent again. With the launch-failed
\* bit set the derived cancel() cancels no child.
ParentCancelInFlight ==
    /\ [](LET a == aw[0][AggStage] IN
            /\ a.next <= 1
            /\ a.cancels <= 1
            /\ emplaced[0] <= 1
            /\ (a.cancels = 1 /\ a.next = 1) =>
                 \A c \in started : a.got = CancelError(c[3])
            /\ ParentCancelReturned =>
                 /\ a.next = 1
                 /\ \A k \in Children : is_force_canceled(state[k])
            /\ (a.cancels = 1 /\ Quiescent) =>
                 /\ emplaced[0] = 1
                 /\ \A c \in started : result[0] = CancelError(c[3])
                 /\ \A k \in Children : emplaced[k] <= 1)
    /\ [][\A t \in Threads :
            (At(t, "agg_cancel") /\ stk'[t] # stk[t]) =>
                IF HasBit(agg.fired, launch_failed_msk)
                THEN stk'[t] = Tail(stk[t])
                ELSE Head(stk'[t]) = Fr("cancel_each", 0, 1, Top(t).v, 0)]_vars

\* a when_any was cancelled in flight by a soft cancel(), its await child was
\* resumed with the hard cancel error in turn and delivered it afterwards,
\* and the receiver of the parent holds the soft cancel error
ParentCancelInFlightWitness ==
    /\ nodes[0] = <<"when_any">>
    /\ ParentCancelReturned
    /\ Quiescent
    /\ started = {<<"c", 0, soft>>}
    /\ result[0] = CancelError(soft)
    /\ aw[0][AggStage].next = 1
    /\ \E k \in Children : nodes[k] = <<"await">> /\ result[k] = CancelError(hard)

\* launch<I>() has been called for child k: its runner or its tasks hold the
\* aggregator, or its receiver has been called
Launched(k) == agg.hold[k] > 0 \/ emplaced[k] > 0

\* child k of a when_all has stored an error and has finished its cancel loop
PastCancelLoop(k) ==
    \E t \in Threads :
        /\ At(t, "wa_cas") \/ At(t, "wa_sub")
        /\ Top(t).p = k
        /\ Top(t).v # "val"

\* failed_index is written only by the CAS N -> I of a child whose slot holds
\* an error, and never changes once it is not N
FailedIndexWrittenOnce ==
    [][agg'.failed # agg.failed =>
          /\ agg.failed = NChildren
          /\ \E t \in Threads :
               /\ At(t, "wa_cas")
               /\ stk'[t] # stk[t]
               /\ result[Top(t).p] # "val"
               /\ agg'.failed = Top(t).p - 1]_vars

\* C34 as stated: when child i of a when_all ends in error every other child
\* is cancelled, but while the launch has not been marked complete only the
\* children launched so far: the controller of a child the loop has not
\* reached is left alone; failed_index goes from N to i only if no failure
\* was recorded, and is written at most once
WhenAllErrorCancelsLaunched ==
    /\ [](\A i \in Children :
            (AggKind = "when_all" /\ PastCancelLoop(i)) =>
                \A k \in Children \ {i} : Launched(k) => is_force_canceled(state[k]))
    /\ [](\A k \in Children :
            (AggKind = "when_all" /\ ~HasBit(agg.fired, launch_success_msk) /\ ~Launched(k)) =>
                ~is_canceled(state[k]))
    /\ FailedIndexWrittenOnce

\* C34: when child i of a when_all ends in error the controller of every
\* child is hard-cancelled, its own and those of the children the launch loop
\* has not reached yet included, whether or not the launch has been marked
\* complete; failed_index goes from N to i only if no failure was recorded,
\* and is written at most once
WhenAllErrorCancelsAll ==
    /\ [](\A i \in Children :
            (AggKind = "when_all" /\ PastCancelLoop(i)) =>
                \A k \in Children : is_force_canceled(state[k]))
    /\ FailedIndexWrittenOnce

\* the first child has failed inside launch<0>() and has recorded its index;
\* the controller of the second child, which the loop has not launched yet,
\* is hard-cancelled
WhenAllErrorCancelsAllWitness ==
    /\ AggKind = "when_all"
    /\ PastCancelLoop(1)
    /\ agg.failed = 0
    /\ ~HasBit(agg.fired, launch_success_msk)
    /\ ~Launched(2)
    /\ is_force_canceled(state[2])

\* the thread of the child that won the winner CAS is at one of the positions
\* pcs of delegate<I>::emplace
WinnerAt(pcs) ==
    \E t \in Threads :
        /\ stk[t] # <<>>
        /\ Top(t).pc \in pcs
        /\ Top(t).p = agg.winner + 1
        /\ Top(t).v = "val"

\* C35: the child that wins a when_any resumes the parent at once, with its
\* value and before any other child has to finish; it then hard-cancels the
\* controller of every other launched child; a losing child's later value or
\* error changes neither the winner index nor what the parent was resumed
\* with, and does not resume the parent again
WhenAnyWinnerResumesFirst ==
    /\ [](LET a == aw[0][AggStage] IN
            /\ a.next <= 1
            /\ agg.winner # NChildren =>
                 /\ result[agg.winner + 1] = "val"
                 /\ a.next = 1 => a.got = "val"
            /\ (agg.winner # NChildren /\ WinnerAt({"cancel_each", "wy_sub"})) =>
                 /\ a.status = "done"
                 /\ a.next = 1
            /\ (agg.winner # NChildren /\ WinnerAt({"wy_sub"})) =>
                 \A k \in Children \ {agg.winner + 1} :
                     Launched(k) => is_force_canceled(state[k]))
    /\ [][agg.winner # NChildren =>
            /\ agg'.winner = agg.winner
            /\ aw[0][AggStage].next = 1 =>
                 /\ aw'[0][AggStage].next = 1
                 /\ aw'[0][AggStage].got = aw[0][AggStage].got]_vars

\* the second child has won while the first waited for its backend: the
\* parent has been resumed with the value, the first child has been cancelled,
\* has delivered the hard cancel error afterwards, and every thread is at rest
WhenAnyWinnerResumesFirstWitness ==
    /\ AggKind = "when_any"
    /\ agg.winner = 1
    /\ aw[0][AggStage].next = 1
    /\ aw[0][AggStage].got = "val"
    /\ nodes[1] = <<"await">>
    /\ result[1] = CancelError(hard)
    /\ emplaced[0] = 1
    /\ Quiescent
    /\ ~uaf

\* every child of the pack is null or ends inside launch<I>()
SyncChildren == \A k \in Children : nodes[k] \in InlineBlueprints

\* C36: the launch loop of a when_any stops at the first check that finds a
\* winner elected (and only then), and launches no child from then on; when
\* every child completes inside its launch the winner is the first child, in
\* pack order, that produced a value, and no child after it is ever launched
WhenAnyLaunchStopsAtWinner ==
    /\ [](/\ ~agg.keep => agg.winner # NChildren
          /\ (SyncChildren /\ agg.winner # NChildren) =>
                \A k \in Children :
                    /\ k < agg.winner + 1 => result[k] # "val"
                    /\ k = agg.winner + 1 => result[k] = "val"
                    /\ k > agg.winner + 1 => (~Launched(k) /\ result[k] = "none"))
    /\ [][/\ ~agg.keep =>
               /\ ~agg'.keep
               /\ agg'.count = agg.count
               /\ \A k \in Children : agg'.hold[k] <= agg.hold[k]
          /\ \A t \in Threads :
               (At(t, "wy_check") /\ stk'[t] # stk[t] /\ agg.winner # NChildren) =>
                   ~agg'.keep]_vars

\* two transform children, as in test_when_any: the first has won inside
\* launch<0>(), the loop has seen the winner and has stopped, the second child
\* was never launched, and the receiver of the parent holds the value
WhenAnyLaunchStopsAtWinnerWitness ==
    /\ nodes = [p \in Pipes |-> IF p = 0 THEN <<"when_any">> ELSE <<"calc">>]
    /\ agg.winner = 0
    /\ ~agg.keep
    /\ ~Launched(2)
    /\ result[0] = "val"
    /\ Quiescent
    /\ ~uaf

\* C37: the index carried by the any_failed error of a when_all names a child
\* whose own pipeline failed: the slot of that child does not hold the cancel
\* error a sibling's failure gave it (nothing but a failing sibling cancels
\* a child controller in these runs)
FailedIndexNamesOwnFailure ==
    LET a == aw[0][AggStage] IN
      /\ agg.failed # NChildren => result[agg.failed + 1] \notin CancelResults
      /\ (a.next = 1 /\ a.got = "any_failed") =>
            /\ agg.made # NChildren
            /\ result[agg.made + 1] \notin CancelResults

\* thread th has claimed a slot (its CAS on t_ succeeded) and has not yet
\* returned from try_emplace
Claiming(th) == ex.pc[th] \in {"d_construct", "d_publish"}

\* C38: no two producers are between claim and publish on the same slot of
\* the mpsc_queue, no construction writes over an element that has not been
\* popped, and no element is popped more than once, for any producers and
\* any capacity, however long a producer stays between its claim and its
\* publish
OneProducerPerSlot ==
    /\ \A th1, th2 \in ExThreads :
          (th1 # th2 /\ Claiming(th1) /\ Claiming(th2)) =>
              ex.tl[th1] % capacity # ex.tl[th2] % capacity
    /\ ~ex.ub
    /\ \A i \in 0..(capacity - 1) : ex.slot[i].data # -1
    /\ \A task \in Tasks : ex.ran[task] <= 1

\* ------------------------------------------------------------------------
\* The run of a chain of await stages whose awaitables complete inside
\* submit(), every executor an inline_executor (inline_executor_probe.cpp)
\* ------------------------------------------------------------------------
AwaitChains == {[i \in 1..n |-> "await"] : n \in 1..MaxStages}

InitInline ==
    /\ nodes \in {[p \in Pipes |-> IF p = 0 THEN b ELSE <<>>] : b \in AwaitChains}
    /\ runner \in Runners
    /\ PInit

\* inline_executor::dispatch runs the task in the calling thread: no task
\* is ever handed to a worker
InlineOnly == \A p \in Pipes : \A i \in 0..(Depth - 1) : stk'[WorkerT(p, i)] = <<>>

NextInline ==
    \E t \in Threads :
        /\ \/ OperatorCall(t) \/ RunEnd(t) \/ RunForceCheck(t)
           \/ DispatchAsyncCanceled(t) \/ DispatchAsyncCreate(t)
           \/ LockCanceled(t) \/ LockAcquire(t) \/ SetHandler(t)
           \/ SubmitAsync(t) \/ SubmitSync(t) \/ GuardUnlock(t)
           \/ Resume(t) \/ DoResume(t) \/ Release(t)
           \/ ContCas(t) \/ ContReset(t) \/ ContClear(t) \/ ContUnlock(t)
           \/ CancelCall(t) \/ CancelReturn(t) \/ CancelCas(t) \/ CancelInvoke(t)
           \/ CancelDrop(t) \/ CancelClear(t)
        /\ InlineOnly

SpecInline == InitInline /\ [][NextInline]_vars

\* C39: with awaitables that complete inside submit() and inline executors,
\* and nobody cancelling, a chain of k await stages has run to its end when
\* operator() returns: the receiver was called once with the value, every
\* stage was submitted and resumed once, dropped its handler once and
\* deleted its awaitable, and the state word is unlocked with the stub triple;
\* every continuation found its token still in the state word, and every
\* stage took the lock from an unlocked word
InlineChainEndsInsideCall ==
    /\ [](started = {} =>
            /\ emplaced[0] <= 1
            /\ stk[MainT] = <<>> =>
                 /\ emplaced[0] = 1
                 /\ result[0] = "val"
                 /\ handler[0] = 0
                 /\ Low(state[0]) = none
                 /\ Quiescent
                 /\ \A i \in 1..Len(nodes[0]) :
                      /\ aw[0][i].submits = 1
                      /\ aw[0][i].next = 1
                      /\ aw[0][i].got = "val"
                      /\ aw[0][i].cancels = 0
                      /\ aw[0][i].retains = 1
                      /\ aw[0][i].drops = 1
                      /\ aw[0][i].freed)
    /\ [][started = {} =>
            \A t \in Threads :
                /\ (At(t, "cont") /\ stk'[t] # stk[t]) =>
                     /\ t = MainT
                     /\ state[0] = Top(t).tok
                     /\ Low(state'[0]) = locked
                     /\ handler[0] = Top(t).i
                /\ (At(t, "lock") /\ stk'[t] # stk[t]) =>
                     /\ Low(state[0]) = none
                     /\ handler[0] = 0
                     /\ \A i \in 1..Len(nodes[0]) :
                          i > Top(t).i => (aw[0][i].next = 1 /\ aw[0][i].drops = 1)]_vars

\* operator() has returned from a chain of MaxStages await stages that
\* nobody cancelled, the receiver holding the value
InlineChainEndsInsideCallWitness ==
    /\ Len(nodes[0]) = MaxStages
    /\ \A i \in 1..MaxStages : nodes[0][i] = "await" /\ aw[0][i].outcome = "sync"
    /\ stk[MainT] = <<>>
    /\ started = {}
    /\ emplaced[0] = 1
    /\ result[0] = "val"

\* ------------------------------------------------------------------------
\* One runner built by make_runner(bp, receiver), called twice; between the
\* two calls its caller may take the controller with get_controller() and
\* cancel it
\* ------------------------------------------------------------------------
InitAgain ==
    /\ nodes \in {[p \in Pipes |-> IF p = 0 THEN b ELSE <<>>] : b \in Blueprints}
    /\ runner = flow_runner(FALSE, FALSE)
    /\ PInit

\* the first run has called the receiver and has left no task, continuation
\* or backend callback behind
Between == emplaced[0] = 1 /\ \A t \in Threads \ Cancellers : stk[t] = <<>>

\* cancel(force) on the controller of the first run, once that run has ended
CancelBetween(t) == Between /\ CancelCall(t)

\* the second operator() on the same runner object, called when every
\* cancel() has returned: `if (!controller) init_controller()`, a new
\* controller with a clear state word and the stub triple only when the
\* member is null, then ipc<node_count - 1>::run; the factories make new
\* awaitables
OperatorCallAgain(t) ==
    /\ t = MainT
    /\ Between
    /\ Quiescent
    /\ LET fresh == ~runner.controller
           s == IF fresh THEN none ELSE state[0]
       IN  /\ state' = [state EXCEPT ![0] = s]
           /\ handler' = [handler EXCEPT ![0] = IF fresh THEN 0 ELSE @]
           /\ entry' = Low(s)
    /\ runner' = [runner EXCEPT !.controller = TRUE, !.next = FALSE]
    /\ aw' = [aw EXCEPT ![0] = [i \in Stages |-> NewAw]]
    /\ stk' = [stk EXCEPT ![t] = <<Fr("run", 0, Len(nodes[0]), "val", 0)>>]
    /\ UNCHANGED <<nodes, passed, ex, code, observed, agg, started, hit, emplaced, result, uaf>>

NextAgain ==
    \E t \in Threads :
        \/ OperatorCall(t) \/ RunEnd(t) \/ RunForceCheck(t) \/ DispatchCalc(t)
        \/ DispatchVia(t) \/ DispatchAsyncCreateFailed(t)
        \/ DispatchAsyncCreate(t) \/ LockAcquire(t) \/ SetHandler(t)
        \/ SubmitAsync(t) \/ SubmitFails(t) \/ SubmitSync(t) \/ SubmitBackend(t)
        \/ SubmitAsyncStoreIdle(t) \/ SubmitFailedReset(t) \/ SubmitFailedClear(t)
        \/ SubmitFailedUnlock(t) \/ SubmitFailedDispatch(t) \/ GuardUnlock(t)
        \/ Resume(t) \/ DoResume(t) \/ Release(t)
        \/ ContCas(t) \/ ContReset(t) \/ ContClear(t) \/ ContUnlock(t)
        \/ ResetCancelHandler(t) \/ ResetCancelHandlerDrop(t)
        \/ ResetCancelHandlerClear(t) \/ ResetCancelHandlerStore(t)
        \/ GetController(t) \/ CancelBetween(t) \/ CancelReturn(t) \/ CancelCas(t)
        \/ CancelInvoke(t) \/ CancelDrop(t) \/ CancelClear(t)
        \/ OperatorCallAgain(t)

SpecAgain == InitAgain /\ [][NextAgain]_vars

\* C40: every operator() call on a runner built without a controller of the
\* caller's runs under a controller of its own: it starts from a state word
\* that is not cancelled, whatever was done to the controller of the run
\* before, and a cancel() of that earlier controller does not give the later
\* run a cancel error, whatever stages the blueprint has
EachRunOwnController ==
    /\ entry \in {-1, none}
    /\ emplaced[0] = 2 => result[0] \notin CancelResults

====
